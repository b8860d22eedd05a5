-------------------------- MODULE PipelineRunProofs --------------------------
(***************************************************************************)
(* TLAPS proofs about PipelineRun: its inductive invariant, the invariants *)
(* and action properties that follow from it.  A lemma X Keeps says that   *)
(* action X keeps the invariant and the revisions that were accepted.      *)
(***************************************************************************)
EXTENDS PipelineRun, TLAPS, WellFoundedInduction

-----------------------------------------------------------------------------
(* What makes the properties inductive.                                    *)

Label == {"idle", "stage", "creating", "producing", "published", "solving", "solved"}

Running(state) == {s \in Stage : state.stages[s].status = "running"}

\* A record of stage s: what is complete has a key that is published.
RecordIsSound(record, s, keys) ==
    /\ record = [status |-> record.status, key |-> record.key, request |-> record.request]
    /\ record.status \in Status
    /\ record.key = None \/ record.key.stage = s
    /\ record.request = None \/ record.request.stage = s
    /\ record.status = "complete" => record.key \in keys

IsState(state) ==
    /\ state = [settings |-> state.settings, generation |-> state.generation,
                revisions |-> state.revisions, manual |-> state.manual,
                stages |-> state.stages]
    /\ state.stages = [s \in Stage |-> state.stages[s]]

\* A state.json, in the file or in memory, after n changes.
StateIsSound(state, n, keys) ==
    /\ IsState(state)
    /\ state.settings \in Settings \cup {Unset}
    /\ state.generation \in [Stage -> 0..n]
    /\ state.revisions \in 0..n
    /\ state.manual = state.revisions
    /\ \A s \in Stage : RecordIsSound(state.stages[s], s, keys)

\* The keys of a run: each one names its stage and its inputs.
Nested(key) ==
    \A s \in Stage :
        /\ key[s].stage = s
        /\ \A d \in Dependencies[s] : key[s].inputs[d] = key[d]

\* A run's local variables l where it is, with st in the file.  It alone has
\* the project, so what is running is its current stage and no revision has
\* come since it read the file.
RunIsSound(l, label, st, n, keys) ==
    /\ l = [mem |-> l.mem, keys |-> l.keys, active |-> l.active, at |-> l.at,
            handles |-> l.handles, cut |-> l.cut]
    /\ l.at \in 0..(Len(Order) + 1) /\ l.handles \subseteq Stage
    /\ label # "idle" =>
        /\ l.at # 0
        /\ StateIsSound(l.mem, n, keys)
        /\ l.mem.revisions = st.revisions
        /\ Nested(l.keys)
        /\ \A d \in l.handles : l.keys[d] \in keys
    /\ label = "stage" => Running(st) = {} /\ Running(l.mem) = {}
    /\ label \notin {"idle", "stage"} =>
        /\ l.at <= Len(Order)
        /\ Running(st) \subseteq {Order[l.at]} /\ Running(l.mem) \subseteq {Order[l.at]}
    /\ label \in {"creating", "producing", "published"} =>
        Dependencies[Order[l.at]] \subseteq l.handles
    /\ label \in {"solving", "solved"} => Order[l.at] = Sync
    /\ label \in {"published", "solved"} => l.keys[Order[l.at]] \in keys

\* What is published or about to be was made from what is published.
KeysAreWhole ==
    \A k \in published \cup foreign :
        /\ k.stage \in Stage
        /\ k.stage # Sync => \A d \in Dependencies[k.stage] : k.inputs[d] \in published

IsTyped ==
    /\ changes \in 0..MaxChanges /\ source \in 0..changes /\ crashes \in 0..MaxCrashes
    /\ cancelFile \in BOOLEAN
    /\ runLock \in Runner \cup Prober \cup {None}
    /\ met \in [Prober -> Runner \cup Prober \cup {None}]
    /\ pc \in [Runner -> Label]
    /\ DOMAIN run = Runner

IInv ==
    /\ IsTyped
    /\ KeysAreWhole
    /\ StateIsSound(file, changes, published)
    /\ \A r \in Runner : pc[r] # "idle" => runLock = r
    /\ (\A r \in Runner : pc[r] = "idle") => Running(file) = {} \/ crashes > 0
    /\ \A r \in Runner : RunIsSound(run[r], pc[r], file, changes, published)

-----------------------------------------------------------------------------
(* The digests of _expected_keys: Keys is what its recursive definition says. *)

\* Every non-empty set of naturals has a least element.
LEMMA Least == \A T \in SUBSET Nat : T # {} => \E x \in T : \A y \in T : x <= y
<1> SUFFICES ASSUME NEW T \in SUBSET Nat, T # {} PROVE \E x \in T : \A y \in T : x <= y
  OBVIOUS
<1> DEFINE R == OpToRel(<, Nat)
<1>1. IsWellFoundedOn(R, Nat)
  BY NatLessThanWellFounded
<1>2. \A x, y \in Nat : <<y, x>> \notin R => ~(y < x)
  BY DEF OpToRel
<1> HIDE DEF R
<1>3. \E x \in T : \A y \in T : <<y, x>> \notin R
  BY <1>1, WFMin
<1>4. PICK x \in T : \A y \in T : <<y, x>> \notin R
  BY <1>3
<1>5. ASSUME NEW y \in T PROVE x <= y
  <2>1. x \in Nat /\ y \in Nat
    OBVIOUS
  <2>2. ~(y < x)
    BY <1>2, <1>4, <2>1
  <2> QED
    BY <2>1, <2>2
<1> QED
  BY <1>5

Inputs(f, s) == [d \in Dependencies[s] |-> f[d]]

KeyIn(state, src, f, s) ==
    [stage      |-> s,
     settings   |-> state.settings[s],
     offset     |-> IF s = Sync THEN state.manual ELSE 0,
     generation |-> state.generation[s],
     source     |-> IF s = Order[1] THEN src ELSE 0,
     inputs     |-> Inputs(f, s)]

\* STAGE_ORDER names every stage once, and a stage depends on stages only.
LEMMA OrderFacts ==
    /\ Len(Order) \in Nat
    /\ \A i \in 1..Len(Order) : Order[i] \in Stage
    /\ \A s \in Stage : \E i \in 1..Len(Order) : Order[i] = s
    /\ \A i, k \in 1..Len(Order) : Order[i] = Order[k] => i = k
    /\ \A s \in Stage : Dependencies[s] \subseteq Stage
<1>1. /\ Len(Order) \in Nat
      /\ \A i \in 1..Len(Order) : Order[i] \in Stage
  BY GraphAssumption
<1>2. \A s \in Stage : \E i \in 1..Len(Order) : Order[i] = s
  BY GraphAssumption DEF ToSet
<1>3. \A i, k \in 1..Len(Order) : Order[i] = Order[k] => i = k
  <2>1. IsInjective(Order) /\ DOMAIN Order = 1..Len(Order)
    BY GraphAssumption
  <2> QED
    BY <2>1 DEF IsInjective
<1>4. ASSUME NEW s \in Stage, NEW d \in Dependencies[s] PROVE d \in Stage
  <2>1. PICK i \in 1..Len(Order) : Order[i] = s
    BY <1>2
  <2>2. PICK k \in 1..(i - 1) : Order[k] = d
    BY <2>1, GraphAssumption
  <2>3. k \in 1..Len(Order)
    BY <1>1, <2>1, <2>2
  <2> QED
    BY <1>1, <2>2, <2>3
<1> QED
  BY <1>1, <1>2, <1>3, <1>4

\* The recursion over DEPENDENCIES ends: _expected_keys defines a key for every
\* stage, from the keys of its dependencies.  The least place of STAGE_ORDER up
\* to which there were no such keys would have some after all.
LEMMA KeysUnfold ==
    ASSUME NEW state, NEW src
    PROVE  LET key == Keys(state, src) IN
           /\ DOMAIN key = Stage
           /\ \A s \in Stage : key[s] = KeyIn(state, src, key, s)
<1> DEFINE Prefix(n) == {Order[k] : k \in 1..n}
           Solves(f, n) == f = [s \in Prefix(n) |-> KeyIn(state, src, f, s)]
           T == {n \in Nat : n <= Len(Order) /\ ~\E f : Solves(f, n)}
<1>1. Keys(state, src) = CHOOSE f : f = [s \in Stage |-> KeyIn(state, src, f, s)]
  BY DEF Keys, KeyIn, Inputs
<1>2. T = {}
  <2>1. SUFFICES ASSUME T # {} PROVE FALSE
    OBVIOUS
  <2>2. PICK x \in T : \A y \in T : x <= y
    BY <2>1, Least
  <2>3. x \in Nat /\ x <= Len(Order) /\ ~\E f : Solves(f, x)
    BY <2>2
  <2>4. CASE x = 0
    <3>1. Prefix(x) = {}
      BY <2>4
    <3>2. Solves([s \in {} |-> 0], x)
      BY <3>1
    <3> QED
      BY <3>2, <2>3
  <2>5. CASE x # 0
    <3>1. x - 1 \in Nat /\ x - 1 <= Len(Order) /\ ~(x <= x - 1)
      BY <2>5, <2>3, OrderFacts
    <3>2. PICK g : Solves(g, x - 1)
      <4>1. x - 1 \notin T
        <5> HIDE DEF T
        <5> QED
          BY <3>1, <2>2
      <4> HIDE DEF Solves
      <4> QED
        BY <3>1, <4>1
    <3> DEFINE h == [s \in Prefix(x) |-> IF s = Order[x] THEN KeyIn(state, src, g, s) ELSE g[s]]
    <3>3. ASSUME NEW s \in Prefix(x) PROVE h[s] = KeyIn(state, src, h, s)
      <4>1. PICK k \in 1..x : s = Order[k]
        OBVIOUS
      <4>2. k \in 1..Len(Order) /\ x \in 1..Len(Order)
        BY <2>3, <2>5, OrderFacts
      <4>3. ASSUME NEW d \in Dependencies[s] PROVE h[d] = g[d]
        <5>1. Dependencies[s] \subseteq {Order[i] : i \in 1..(k - 1)}
          BY <4>1, <4>2, GraphAssumption
        <5>2. PICK i \in 1..(k - 1) : d = Order[i]
          BY <5>1
        <5>3. i \in 1..x /\ i # x /\ i \in 1..Len(Order)
          BY <2>3, OrderFacts, <4>2
        <5>4. d \in Prefix(x) /\ d # Order[x]
          BY <5>2, <5>3, <4>2, OrderFacts
        <5> QED
          BY <5>4
      <4>4. Inputs(h, s) = Inputs(g, s)
        BY <4>3 DEF Inputs
      <4>5. KeyIn(state, src, h, s) = KeyIn(state, src, g, s)
        BY <4>4 DEF KeyIn
      <4>6. CASE s = Order[x]
        BY <4>5, <4>6
      <4>7. CASE s # Order[x]
        <5>1. k # x /\ k \in 1..(x - 1)
          BY <4>7, <4>1, <2>3
        <5>2. s \in Prefix(x - 1)
          BY <5>1, <4>1
        <5>3. g[s] = KeyIn(state, src, g, s)
          BY <5>2, <3>2
        <5> QED
          BY <5>3, <4>5, <4>7
      <4> QED
        BY <4>6, <4>7
    <3>4. Solves(h, x)
      BY <3>3
    <3> QED
      BY <3>4, <2>3
  <2> QED
    BY <2>4, <2>5
<1>3. Prefix(Len(Order)) = Stage
  BY OrderFacts
<1>4. \E f : Solves(f, Len(Order))
  <2>1. Len(Order) \in Nat /\ Len(Order) <= Len(Order)
    BY OrderFacts
  <2> HIDE DEF Solves
  <2> QED
    BY <1>2, <2>1
<1>5. \E f : f = [s \in Stage |-> KeyIn(state, src, f, s)]
  BY <1>3, <1>4
<1>6. Keys(state, src) = [s \in Stage |-> KeyIn(state, src, Keys(state, src), s)]
  BY <1>1, <1>5
<1> QED
  BY <1>6

-----------------------------------------------------------------------------
(* Records and states under the updates of the actions.                    *)

\* A record of state.json under the updates of one field.
LEMMA RecordForms ==
    ASSUME NEW a, NEW b, NEW c, NEW x,
           NEW record, record = [status |-> a, key |-> b, request |-> c]
    PROVE  /\ [record EXCEPT !.status = x] = [status |-> x, key |-> b, request |-> c]
           /\ [record EXCEPT !.key = x] = [status |-> a, key |-> x, request |-> c]
           /\ [record EXCEPT !.request = x] = [status |-> a, key |-> b, request |-> x]
OBVIOUS

\* A state with another record of stage s.
Recorded(state, s, record) ==
    [settings |-> state.settings, generation |-> state.generation,
     revisions |-> state.revisions, manual |-> state.manual,
     stages |-> [t \in Stage |-> IF t = s THEN record ELSE state.stages[t]]]

\* Replacing the record of one stage.
LEMMA StateForms ==
    ASSUME NEW state, IsState(state), NEW s \in Stage, NEW x
    PROVE  [state EXCEPT !.stages[s] = x] = Recorded(state, s, x)
<1>1. PICK f, g, h, i, stages :
        state = [settings |-> f, generation |-> g, revisions |-> h, manual |-> i,
                 stages |-> stages]
  BY DEF IsState
<1>2. stages = [t \in Stage |-> stages[t]]
  BY <1>1 DEF IsState
<1>3. \A y : [state EXCEPT !.stages = y] =
        [settings |-> f, generation |-> g, revisions |-> h, manual |-> i, stages |-> y]
  <2> TAKE y
  <2> QED
    BY <1>1
<1>4. [state EXCEPT !.stages[s] = x] =
        [state EXCEPT !.stages = [state.stages EXCEPT ![s] = x]]
  BY <1>1
<1>5. [state.stages EXCEPT ![s] = x] = [t \in Stage |-> IF t = s THEN x ELSE stages[t]]
  BY <1>1, <1>2
<1>6. Recorded(state, s, x) =
        [settings |-> f, generation |-> g, revisions |-> h, manual |-> i,
         stages |-> [t \in Stage |-> IF t = s THEN x ELSE stages[t]]]
  BY <1>1 DEF Recorded
<1> QED
  BY <1>3, <1>4, <1>5, <1>6

\* What has been recorded is a state again.
LEMMA RecordedIsState ==
    ASSUME NEW state, NEW s, NEW x
    PROVE  IsState(Recorded(state, s, x))
BY DEF IsState, Recorded

\* Of two records of one stage the last one counts.
LEMMA RecordedTwice ==
    ASSUME NEW state, NEW s \in Stage, NEW x, NEW y
    PROVE  /\ Recorded(Recorded(state, s, x), s, y) = Recorded(state, s, y)
           /\ Recorded(state, s, x).stages[s] = x
<1> DEFINE new == [t \in Stage |-> IF t = s THEN x ELSE state.stages[t]]
<1>1. \A t \in Stage : new[t] = IF t = s THEN x ELSE state.stages[t]
  OBVIOUS
<1>2. Recorded(state, s, x) =
        [settings |-> state.settings, generation |-> state.generation,
         revisions |-> state.revisions, manual |-> state.manual, stages |-> new]
  BY DEF Recorded
<1> HIDE DEF new
<1>3. [t \in Stage |-> IF t = s THEN y ELSE new[t]] =
        [t \in Stage |-> IF t = s THEN y ELSE state.stages[t]]
  BY <1>1
<1>4. Recorded(Recorded(state, s, x), s, y) =
        [settings |-> state.settings, generation |-> state.generation,
         revisions |-> state.revisions, manual |-> state.manual,
         stages |-> [t \in Stage |-> IF t = s THEN y ELSE new[t]]]
  BY <1>2 DEF Recorded
<1> QED
  BY <1>1, <1>2, <1>3, <1>4 DEF Recorded

\* A sound record keeps a state sound.
LEMMA RecordedIsSound ==
    ASSUME NEW state, NEW n, NEW keys, StateIsSound(state, n, keys),
           NEW s \in Stage, NEW record, RecordIsSound(record, s, keys)
    PROVE  LET new == Recorded(state, s, record) IN
           /\ StateIsSound(new, n, keys)
           /\ new.revisions = state.revisions
           /\ Running(new) =
                (Running(state) \ {s}) \cup (IF record.status = "running" THEN {s} ELSE {})
<1> DEFINE new == Recorded(state, s, record)
<1>1. /\ new.settings = state.settings /\ new.generation = state.generation
      /\ new.revisions = state.revisions /\ new.manual = state.manual
      /\ \A t \in Stage : new.stages[t] = IF t = s THEN record ELSE state.stages[t]
  BY DEF Recorded
<1>2. IsState(new)
  BY RecordedIsState
<1> HIDE DEF new
<1>3. \A t \in Stage : RecordIsSound(new.stages[t], t, keys)
  BY <1>1 DEF StateIsSound
<1>4. StateIsSound(new, n, keys)
  BY <1>1, <1>2, <1>3 DEF StateIsSound
<1>5. Running(new) =
        (Running(state) \ {s}) \cup (IF record.status = "running" THEN {s} ELSE {})
  BY <1>1 DEF Running
<1> QED
  BY <1>1, <1>4, <1>5 DEF new

\* The updates that the actions make to the record of a stage.
Settle(state, s, status, key) ==
    [state EXCEPT !.stages[s].status = status, !.stages[s].key = key]
Mark(state, s, status) == [state EXCEPT !.stages[s].status = status]
Link(state, s, key) == [state EXCEPT !.stages[s].request = key]

\* The updates of the actions record something for one stage.
LEMMA SettledIsRecorded ==
    ASSUME NEW state, NEW n, NEW keys, StateIsSound(state, n, keys),
           NEW s \in Stage, NEW status, NEW key
    PROVE  /\ Settle(state, s, status, key) =
                Recorded(state, s, [status |-> status, key |-> key,
                                    request |-> state.stages[s].request])
           /\ Mark(state, s, status) =
                Recorded(state, s, [status |-> status, key |-> state.stages[s].key,
                                    request |-> state.stages[s].request])
           /\ Link(state, s, key) =
                Recorded(state, s, [status |-> state.stages[s].status,
                                    key |-> state.stages[s].key, request |-> key])
<1> DEFINE old == state.stages[s]
           One == [old EXCEPT !.status = status]
           Two == [One EXCEPT !.key = key]
           Three == [old EXCEPT !.request = key]
<1>1. /\ One = [status |-> status, key |-> old.key, request |-> old.request]
      /\ Two = [status |-> status, key |-> key, request |-> old.request]
      /\ Three = [status |-> old.status, key |-> old.key, request |-> key]
  <2>1. old = [status |-> old.status, key |-> old.key, request |-> old.request]
    BY DEF StateIsSound, RecordIsSound
  <2>2. PICK a, b, c : /\ old = [status |-> a, key |-> b, request |-> c]
                       /\ a = old.status /\ b = old.key /\ c = old.request
    BY <2>1
  <2>3. /\ One = [status |-> status, key |-> b, request |-> c]
        /\ Three = [status |-> a, key |-> b, request |-> key]
    <3> HIDE DEF old
    <3> QED
      BY <2>2, RecordForms
  <2>4. Two = [status |-> status, key |-> key, request |-> c]
    <3> HIDE DEF old, One
    <3> QED
      BY <2>3, RecordForms
  <2> HIDE DEF old, One, Two, Three
  <2> QED
    BY <2>2, <2>3, <2>4
<1> HIDE DEF One, Two, Three
<1>2. IsState(state)
  BY DEF StateIsSound
<1>3. /\ [state EXCEPT !.stages[s] = One] = Recorded(state, s, One)
      /\ [state EXCEPT !.stages[s] = Three] = Recorded(state, s, Three)
  BY <1>2, StateForms
<1>4. [Recorded(state, s, One) EXCEPT !.stages[s] = Two] = Recorded(state, s, Two)
  <2>1. [Recorded(state, s, One) EXCEPT !.stages[s] = Two] =
            Recorded(Recorded(state, s, One), s, Two)
    BY RecordedIsState, StateForms
  <2> QED
    BY <2>1, RecordedTwice
<1>5. /\ [state EXCEPT !.stages[s].status = status] = [state EXCEPT !.stages[s] = One]
      /\ [state EXCEPT !.stages[s].request = key] = [state EXCEPT !.stages[s] = Three]
  BY <1>2 DEF IsState, One, Three
<1>6. [state EXCEPT !.stages[s].status = status, !.stages[s].key = key] =
        [Recorded(state, s, One) EXCEPT !.stages[s] = Two]
  <2>1. [state EXCEPT !.stages[s].status = status, !.stages[s].key = key] =
            [Recorded(state, s, One) EXCEPT !.stages[s].key = key]
    BY <1>3, <1>5
  <2>2. Recorded(state, s, One).stages[s] = One
    BY RecordedTwice
  <2>3. [Recorded(state, s, One) EXCEPT !.stages[s].key = key] =
            [Recorded(state, s, One) EXCEPT !.stages[s] = [One EXCEPT !.key = key]]
    BY <2>2
  <2> QED
    BY <2>1, <2>3 DEF Two
<1>7. /\ Settle(state, s, status, key) = Recorded(state, s, Two)
      /\ Mark(state, s, status) = Recorded(state, s, One)
      /\ Link(state, s, key) = Recorded(state, s, Three)
  BY <1>3, <1>4, <1>5, <1>6 DEF Settle, Mark, Link
<1> QED
  BY <1>1, <1>7

\* A state stays sound when changes are made and artifacts published.
LEMMA Grown ==
    ASSUME NEW state, NEW n \in Nat, NEW keys, StateIsSound(state, n, keys),
           NEW m \in Nat, n <= m, NEW more, keys \subseteq more
    PROVE  StateIsSound(state, m, more)
<1>1. state.generation \in [Stage -> 0..m] /\ state.revisions \in 0..m
  <2>1. 0..n \subseteq 0..m
    OBVIOUS
  <2>2. state.generation \in [Stage -> 0..n] /\ state.revisions \in 0..n
    BY DEF StateIsSound
  <2> QED
    BY <2>1, <2>2
<1> QED
  BY <1>1 DEF StateIsSound, RecordIsSound

\* So does what a run has in its local variables.
LEMMA RunGrown ==
    ASSUME NEW l, NEW label, NEW st, NEW n \in Nat, NEW keys,
           RunIsSound(l, label, st, n, keys),
           NEW m \in Nat, n <= m, NEW more, keys \subseteq more
    PROVE  RunIsSound(l, label, st, m, more)
BY Grown DEF RunIsSound

-----------------------------------------------------------------------------
(* A state.json as _load_status shows it.                                  *)

\* _load_status shows of a sound record a sound one, as complete only under the
\* key of the moment.
LEMMA ShownIsSound ==
    ASSUME NEW old, NEW s, NEW keys, RecordIsSound(old, s, keys), NEW key,
           NEW active \in BOOLEAN, NEW new, new = Shown(old, key, active)
    PROVE  /\ RecordIsSound(new, s, keys)
           /\ new.status = "complete" => new.key = None \/ new.key = key
           /\ ~active => new.status # "running"
<1>1. \/ new = old /\ ~(old.status = "running" /\ ~active)
                   /\ (old.key = None \/ old.key = key)
      \/ new = [old EXCEPT !.status = "interrupted"]
      \/ new = [old EXCEPT !.status = "stale"]
  BY DEF Shown
<1>2. \A x : [old EXCEPT !.status = x] =
                [status |-> x, key |-> old.key, request |-> old.request]
  <2>1. PICK a, b, c : /\ old = [status |-> a, key |-> b, request |-> c]
                       /\ a = old.status /\ b = old.key /\ c = old.request
    BY DEF RecordIsSound
  <2> QED
    BY <2>1, RecordForms
<1>3. CASE new = old /\ ~(old.status = "running" /\ ~active)
                     /\ (old.key = None \/ old.key = key)
  BY <1>3 DEF RecordIsSound
<1>4. ASSUME NEW x \in {"interrupted", "stale"},
             new = [status |-> x, key |-> old.key, request |-> old.request]
      PROVE  /\ RecordIsSound(new, s, keys)
             /\ new.status # "complete" /\ new.status # "running"
  <2>1. new.status = x /\ new.key = old.key /\ new.request = old.request
    BY <1>4
  <2>2. x \in Status /\ x # "complete" /\ x # "running"
    BY DEF Status
  <2> QED
    BY <1>4, <2>1, <2>2 DEF RecordIsSound
<1> QED
  BY <1>1, <1>2, <1>3, <1>4

\* The stages of a state as they are shown, under the keys of the moment.
Seen(state, key, active) == [s \in Stage |-> Shown(state.stages[s], key[s], active)]

\* It does so of every stage.
LEMMA SeenIsSound ==
    ASSUME NEW state, NEW n, NEW keys, StateIsSound(state, n, keys), NEW key,
           NEW active \in BOOLEAN
    PROVE  /\ Seen(state, key, active) = [s \in Stage |-> Seen(state, key, active)[s]]
           /\ \A s \in Stage :
                /\ RecordIsSound(Seen(state, key, active)[s], s, keys)
                /\ Seen(state, key, active)[s].status = "complete" =>
                    \/ Seen(state, key, active)[s].key = None
                    \/ Seen(state, key, active)[s].key = key[s]
                /\ ~active => Seen(state, key, active)[s].status # "running"
<1>1. Seen(state, key, active) = [s \in Stage |-> Seen(state, key, active)[s]]
  BY DEF Seen
<1>2. \A s \in Stage : Seen(state, key, active)[s] = Shown(state.stages[s], key[s], active)
  BY DEF Seen
<1>3. \A s \in Stage : RecordIsSound(state.stages[s], s, keys)
  BY DEF StateIsSound
<1> QED
  BY <1>1, <1>2, <1>3, ShownIsSound

\* What a sound state is made of.
LEMMA Made ==
    ASSUME NEW n, NEW keys, NEW f \in Settings \cup {Unset}, NEW g \in [Stage -> 0..n],
           NEW h \in 0..n, NEW stages, stages = [s \in Stage |-> stages[s]],
           \A s \in Stage : RecordIsSound(stages[s], s, keys), NEW state,
           state = [settings |-> f, generation |-> g, revisions |-> h, manual |-> h,
                    stages |-> stages]
    PROVE  StateIsSound(state, n, keys)
<1>1. /\ state.settings = f /\ state.generation = g /\ state.revisions = h
      /\ state.manual = h /\ state.stages = stages
  OBVIOUS
<1> QED
  BY <1>1 DEF StateIsSound, IsState

\* A state under the updates of one field.
LEMMA WithForms ==
    ASSUME NEW state, IsState(state), NEW x
    PROVE  /\ [state EXCEPT !.stages = x] =
                [settings |-> state.settings, generation |-> state.generation,
                 revisions |-> state.revisions, manual |-> state.manual, stages |-> x]
           /\ [state EXCEPT !.settings = x] =
                [settings |-> x, generation |-> state.generation,
                 revisions |-> state.revisions, manual |-> state.manual,
                 stages |-> state.stages]
           /\ [state EXCEPT !.generation = x] =
                [settings |-> state.settings, generation |-> x,
                 revisions |-> state.revisions, manual |-> state.manual,
                 stages |-> state.stages]
           /\ [state EXCEPT !.revisions = x] =
                [settings |-> state.settings, generation |-> state.generation,
                 revisions |-> x, manual |-> state.manual, stages |-> state.stages]
           /\ [state EXCEPT !.manual = x] =
                [settings |-> state.settings, generation |-> state.generation,
                 revisions |-> state.revisions, manual |-> x, stages |-> state.stages]
<1>1. PICK f, g, h, i, j :
        /\ state = [settings |-> f, generation |-> g, revisions |-> h, manual |-> i,
                    stages |-> j]
        /\ f = state.settings /\ g = state.generation /\ h = state.revisions
        /\ i = state.manual /\ j = state.stages
  BY DEF IsState
<1>2. /\ [state EXCEPT !.stages = x] =
            [settings |-> f, generation |-> g, revisions |-> h, manual |-> i, stages |-> x]
      /\ [state EXCEPT !.settings = x] =
            [settings |-> x, generation |-> g, revisions |-> h, manual |-> i, stages |-> j]
      /\ [state EXCEPT !.generation = x] =
            [settings |-> f, generation |-> x, revisions |-> h, manual |-> i, stages |-> j]
      /\ [state EXCEPT !.revisions = x] =
            [settings |-> f, generation |-> g, revisions |-> x, manual |-> i, stages |-> j]
      /\ [state EXCEPT !.manual = x] =
            [settings |-> f, generation |-> g, revisions |-> h, manual |-> x, stages |-> j]
  BY <1>1
<1> QED
  BY <1>1, <1>2

\* _load_status returns a sound state, in which nothing runs unless a run is
\* active.
LEMMA LoadedIsSound ==
    ASSUME NEW n, NEW keys, StateIsSound(file, n, keys), NEW active \in BOOLEAN
    PROVE  /\ StateIsSound(Loaded(active), n, keys)
           /\ Loaded(active) = [settings |-> file.settings, generation |-> file.generation,
                revisions |-> file.revisions, manual |-> file.manual,
                stages |-> Seen(file, Keys(file, source), active)]
           /\ ~active => Running(Loaded(active)) = {}
<1> DEFINE stages == Seen(file, Keys(file, source), active)
<1>1. Loaded(active) = [settings |-> file.settings, generation |-> file.generation,
        revisions |-> file.revisions, manual |-> file.manual, stages |-> stages]
  BY WithForms DEF Loaded, Seen, StateIsSound
<1>2. /\ file.settings \in Settings \cup {Unset} /\ file.generation \in [Stage -> 0..n]
      /\ file.revisions \in 0..n /\ file.manual = file.revisions
  BY DEF StateIsSound
<1>3. /\ stages = [s \in Stage |-> stages[s]]
      /\ \A s \in Stage : RecordIsSound(stages[s], s, keys)
      /\ ~active => \A s \in Stage : stages[s].status # "running"
  BY SeenIsSound
<1> HIDE DEF stages
<1>4. StateIsSound(Loaded(active), n, keys)
  BY <1>1, <1>2, <1>3, Made, SMTT(30)
<1>5. Loaded(active).stages = stages
  BY <1>1
<1>6. ~active => Running(Loaded(active)) = {}
  BY <1>3, <1>5 DEF Running
<1> QED
  BY <1>1, <1>4, <1>6 DEF stages

-----------------------------------------------------------------------------
(* What a step of a run must keep, and the settling of a stage.            *)

\* A key names its stage, and its inputs are the keys of the dependencies.
LEMMA KeysAreNested ==
    ASSUME NEW state, NEW src
    PROVE  Nested(Keys(state, src))
<1> DEFINE key == Keys(state, src)
<1>1. \A s \in Stage : key[s] = KeyIn(state, src, key, s)
  BY KeysUnfold
<1> HIDE DEF key
<1>2. \A s \in Stage : key[s].stage = s /\ key[s].inputs = Inputs(key, s)
  <2>1. \A s \in Stage : /\ KeyIn(state, src, key, s).stage = s
                         /\ KeyIn(state, src, key, s).inputs = Inputs(key, s)
    BY DEF KeyIn
  <2> QED
    BY <1>1, <2>1
<1>3. \A s \in Stage : \A d \in Dependencies[s] : Inputs(key, s)[d] = key[d]
  BY DEF Inputs
<1>4. Nested(key)
  BY <1>2, <1>3 DEF Nested
<1> QED
  BY <1>4 DEF key

\* A step of the one run that has, takes or gives back run.lock.
LEMMA StepIsSound ==
    ASSUME IInv, NEW r \in Runner, runLock \in {None, r},
           IsTyped', KeysAreWhole', StateIsSound(file, changes, published)',
           \A q \in Runner \ {r} : pc'[q] = pc[q] /\ run'[q] = run[q],
           pc'[r] # "idle" => runLock' = r,
           pc'[r] = "idle" => Running(file)' = {} \/ crashes' > 0,
           RunIsSound(run[r], pc[r], file, changes, published)'
    PROVE  IInv'
<1>1. \A q \in Runner \ {r} : pc[q] = "idle"
  BY NobodyAssumption DEF IInv
<1>2. ASSUME NEW q \in Runner \ {r}
      PROVE  RunIsSound(run[q], pc[q], file, changes, published)'
  <2>1. pc'[q] = "idle" /\ run'[q] = run[q]
    BY <1>1, <1>2
  <2>2. RunIsSound(run[q], "idle", file, changes, published)
    BY <1>1, <1>2 DEF IInv
  <2>3. RunIsSound(run[q], "idle", file', changes', published')
    BY <2>2 DEF RunIsSound
  <2> QED
    BY <2>1, <2>3
<1>3. \A q \in Runner : pc'[q] # "idle" => runLock' = q
  BY <1>1
<1> QED
  BY <1>2, <1>3 DEF IInv

\* A run that goes on has run.lock.
LEMMA OthersAreIdle ==
    ASSUME IInv, NEW r \in Runner, pc[r] # "idle"
    PROVE  /\ runLock = r
           /\ RunIsSound(run[r], pc[r], file, changes, published)
           /\ StateIsSound(run[r].mem, changes, published)
           /\ run[r].at \in 1..(Len(Order) + 1)
<1>1. runLock = r /\ RunIsSound(run[r], pc[r], file, changes, published)
  BY DEF IInv
<1>2. /\ StateIsSound(run[r].mem, changes, published)
      /\ run[r].at \in 0..(Len(Order) + 1) /\ run[r].at # 0
  BY <1>1 DEF RunIsSound
<1>3. run[r].at \in 1..(Len(Order) + 1)
  BY <1>2, OrderFacts
<1> QED
  BY <1>1, <1>2, <1>3

\* The state in which the current stage has got a status.
LEMMA SettledIsSound ==
    ASSUME IInv, NEW r \in Runner, pc[r] # "idle", run[r].at <= Len(Order),
           NEW status \in Status, status = "complete" => CurKey(r) \in published
    PROVE  /\ run[r].at \in 1..Len(Order) /\ Cur(r) \in Stage
           /\ CurKey(r).stage = Cur(r)
           /\ StateIsSound(Settled(r, status), changes, published)
           /\ Settled(r, status).revisions = file.revisions
           /\ Running(Settled(r, status)) = IF status = "running" THEN {Cur(r)} ELSE {}
<1> DEFINE mem == run[r].mem
           s == Cur(r)
           record == [status |-> status, key |-> CurKey(r),
                      request |-> mem.stages[s].request]
<1>1. run[r].at \in 1..Len(Order) /\ s \in Stage
  BY OthersAreIdle, OrderFacts DEF Cur
<1>2. /\ StateIsSound(mem, changes, published) /\ mem.revisions = file.revisions
      /\ Running(mem) \subseteq {s}
      /\ CurKey(r).stage = s
  <2>1. RunIsSound(run[r], pc[r], file, changes, published)
    BY OthersAreIdle
  <2> QED
    BY <1>1, <2>1 DEF RunIsSound, Cur, CurKey, Nested
<1>3. Settled(r, status) = Recorded(mem, s, record)
  <2>1. Settled(r, status) = Settle(mem, s, status, CurKey(r))
    BY DEF Settled, Settle
  <2>2. Settle(mem, s, status, CurKey(r)) = Recorded(mem, s, record)
    <3>1. StateIsSound(mem, changes, published) /\ s \in Stage
      BY <1>1, <1>2
    <3> HIDE DEF s, mem
    <3> QED
      BY <3>1, SettledIsRecorded, ZenonT(30)
  <2> QED
    BY <2>1, <2>2
<1>4. RecordIsSound(record, s, published)
  <2>1. RecordIsSound(mem.stages[s], s, published)
    BY <1>1, <1>2 DEF StateIsSound
  <2> HIDE DEF s, mem
  <2> QED
    BY <1>2, <2>1 DEF RecordIsSound
<1>5. record.status = status
  OBVIOUS
<1> HIDE DEF record, s, mem
<1>6. /\ StateIsSound(Recorded(mem, s, record), changes, published)
      /\ Recorded(mem, s, record).revisions = mem.revisions
      /\ Running(Recorded(mem, s, record)) =
            (Running(mem) \ {s}) \cup (IF record.status = "running" THEN {s} ELSE {})
  BY <1>1, <1>2, <1>4, RecordedIsSound
<1> QED
  BY <1>1, <1>2, <1>3, <1>5, <1>6 DEF s

-----------------------------------------------------------------------------
(* The local variables of a run.                                           *)

\* l is the record of a run's local variables.
IsLocal(l) ==
    l = [mem |-> l.mem, keys |-> l.keys, active |-> l.active, at |-> l.at,
         handles |-> l.handles, cut |-> l.cut]

\* The local variables under the updates of one field.
LEMMA LocalForms ==
    ASSUME NEW l, IsLocal(l), NEW x
    PROVE  /\ [l EXCEPT !.mem = x] = [mem |-> x, keys |-> l.keys, active |-> l.active,
                at |-> l.at, handles |-> l.handles, cut |-> l.cut]
           /\ [l EXCEPT !.keys = x] = [mem |-> l.mem, keys |-> x, active |-> l.active,
                at |-> l.at, handles |-> l.handles, cut |-> l.cut]
           /\ [l EXCEPT !.at = x] = [mem |-> l.mem, keys |-> l.keys, active |-> l.active,
                at |-> x, handles |-> l.handles, cut |-> l.cut]
           /\ [l EXCEPT !.handles = x] = [mem |-> l.mem, keys |-> l.keys,
                active |-> l.active, at |-> l.at, handles |-> x, cut |-> l.cut]
           /\ [l EXCEPT !.cut = x] = [mem |-> l.mem, keys |-> l.keys,
                active |-> l.active, at |-> l.at, handles |-> l.handles, cut |-> x]
<1>1. PICK a, b, c, d, e, f :
        /\ l = [mem |-> a, keys |-> b, active |-> c, at |-> d, handles |-> e, cut |-> f]
        /\ a = l.mem /\ b = l.keys /\ c = l.active /\ d = l.at /\ e = l.handles /\ f = l.cut
  BY DEF IsLocal
<1>2. /\ [l EXCEPT !.mem = x] =
            [mem |-> x, keys |-> b, active |-> c, at |-> d, handles |-> e, cut |-> f]
      /\ [l EXCEPT !.keys = x] =
            [mem |-> a, keys |-> x, active |-> c, at |-> d, handles |-> e, cut |-> f]
      /\ [l EXCEPT !.at = x] =
            [mem |-> a, keys |-> b, active |-> c, at |-> x, handles |-> e, cut |-> f]
      /\ [l EXCEPT !.handles = x] =
            [mem |-> a, keys |-> b, active |-> c, at |-> d, handles |-> x, cut |-> f]
      /\ [l EXCEPT !.cut = x] =
            [mem |-> a, keys |-> b, active |-> c, at |-> d, handles |-> e, cut |-> x]
  BY <1>1
<1> QED
  BY <1>1, <1>2

\* What becomes of the local variables of r.
Moved(f, r, state, handles, cancelled) ==
    [f EXCEPT ![r].mem = state, ![r].at = @ + 1, ![r].handles = @ \cup handles,
              ![r].cut = @ \/ cancelled]
Passed(f, r, state) == [f EXCEPT ![r].mem = state, ![r].at = @ + 1]

\* ... under the updates of a skipped stage.
LEMMA PassedIs ==
    ASSUME NEW f, NEW r \in DOMAIN f, IsLocal(f[r]), NEW state
    PROVE  /\ DOMAIN Passed(f, r, state) = DOMAIN f
           /\ \A q \in DOMAIN f \ {r} : Passed(f, r, state)[q] = f[q]
           /\ IsLocal(Passed(f, r, state)[r])
           /\ Passed(f, r, state)[r].mem = state
           /\ Passed(f, r, state)[r].keys = f[r].keys
           /\ Passed(f, r, state)[r].at = f[r].at + 1
           /\ Passed(f, r, state)[r].handles = f[r].handles
<1> DEFINE l  == f[r]
           l1 == [l EXCEPT !.mem = state]
           l2 == [l1 EXCEPT !.at = l1.at + 1]
           f1 == [f EXCEPT ![r] = l1]
           f2 == [f1 EXCEPT ![r] = l2]
<1>1. /\ l1 = [mem |-> state, keys |-> l.keys, active |-> l.active, at |-> l.at,
               handles |-> l.handles, cut |-> l.cut]
      /\ IsLocal(l1)
  <2>1. l1 = [mem |-> state, keys |-> l.keys, active |-> l.active, at |-> l.at,
              handles |-> l.handles, cut |-> l.cut]
    BY LocalForms
  <2> HIDE DEF l1
  <2> QED
    BY <2>1 DEF IsLocal
<1>2. l2 = [mem |-> l1.mem, keys |-> l1.keys, active |-> l1.active, at |-> l1.at + 1,
            handles |-> l1.handles, cut |-> l1.cut]
  <2> HIDE DEF l1
  <2>1. \A x : [l1 EXCEPT !.at = x] =
            [mem |-> l1.mem, keys |-> l1.keys, active |-> l1.active, at |-> x,
             handles |-> l1.handles, cut |-> l1.cut]
    BY <1>1, LocalForms, ZenonT(30)
  <2> QED
    BY <2>1
<1>3. /\ l2.mem = state /\ l2.keys = l.keys /\ l2.at = l.at + 1 /\ l2.handles = l.handles
      /\ IsLocal(l2)
  <2> HIDE DEF l1, l2
  <2> QED
    BY <1>1, <1>2 DEF IsLocal
<1>4. Passed(f, r, state) = f2
  BY DEF Passed
<1>5. /\ DOMAIN f2 = DOMAIN f /\ f2[r] = l2
      /\ \A q \in DOMAIN f \ {r} : f2[q] = f[q]
  <2> HIDE DEF l1, l2
  <2> QED
    OBVIOUS
<1> HIDE DEF f2, l2
<1> QED
  BY <1>3, <1>4, <1>5

\* ... under the updates of Continue.
LEMMA MovedIs ==
    ASSUME NEW f, NEW r \in DOMAIN f, IsLocal(f[r]), NEW state, NEW handles, NEW cancelled
    PROVE  /\ DOMAIN Moved(f, r, state, handles, cancelled) = DOMAIN f
           /\ \A q \in DOMAIN f \ {r} : Moved(f, r, state, handles, cancelled)[q] = f[q]
           /\ IsLocal(Moved(f, r, state, handles, cancelled)[r])
           /\ Moved(f, r, state, handles, cancelled)[r].mem = state
           /\ Moved(f, r, state, handles, cancelled)[r].keys = f[r].keys
           /\ Moved(f, r, state, handles, cancelled)[r].at = f[r].at + 1
           /\ Moved(f, r, state, handles, cancelled)[r].handles = f[r].handles \cup handles
<1> DEFINE f2 == Passed(f, r, state)
           l2 == f2[r]
           l3 == [l2 EXCEPT !.handles = l2.handles \cup handles]
           l4 == [l3 EXCEPT !.cut = l3.cut \/ cancelled]
           f3 == [f2 EXCEPT ![r] = l3]
           f4 == [f3 EXCEPT ![r] = l4]
<1>1. /\ DOMAIN f2 = DOMAIN f /\ \A q \in DOMAIN f \ {r} : f2[q] = f[q]
      /\ l2.mem = state /\ l2.keys = f[r].keys /\ l2.at = f[r].at + 1
      /\ l2.handles = f[r].handles /\ IsLocal(l2)
  BY PassedIs
<1>2. Moved(f, r, state, handles, cancelled) = f4
  BY DEF Moved, Passed
<1> HIDE DEF f2
<1>3. l3 = [mem |-> l2.mem, keys |-> l2.keys, active |-> l2.active, at |-> l2.at,
            handles |-> l2.handles \cup handles, cut |-> l2.cut]
  <2> HIDE DEF l2
  <2>1. \A x : [l2 EXCEPT !.handles = x] =
            [mem |-> l2.mem, keys |-> l2.keys, active |-> l2.active, at |-> l2.at,
             handles |-> x, cut |-> l2.cut]
    BY <1>1, LocalForms
  <2> QED
    BY <2>1
<1>4. /\ IsLocal(l3) /\ l3.mem = l2.mem /\ l3.keys = l2.keys /\ l3.at = l2.at
      /\ l3.handles = l2.handles \cup handles
  <2> HIDE DEF l2, l3
  <2> QED
    BY <1>3 DEF IsLocal
<1>5. l4 = [mem |-> l3.mem, keys |-> l3.keys, active |-> l3.active, at |-> l3.at,
            handles |-> l3.handles, cut |-> l3.cut \/ cancelled]
  <2> HIDE DEF l3
  <2> QED
    BY <1>4, LocalForms
<1>6. /\ IsLocal(l4) /\ l4.mem = l3.mem /\ l4.keys = l3.keys /\ l4.at = l3.at
      /\ l4.handles = l3.handles
  <2> HIDE DEF l3, l4
  <2> QED
    BY <1>5 DEF IsLocal
<1>7. /\ DOMAIN f4 = DOMAIN f2 /\ f4[r] = l4
      /\ \A q \in DOMAIN f2 \ {r} : f4[q] = f2[q]
  <2> HIDE DEF l2, l3, l4
  <2> QED
    BY <1>1
<1> HIDE DEF f4, l4, l3, l2
<1> QED
  BY <1>1, <1>2, <1>4, <1>6, <1>7

Remembered(f, r, state) == [f EXCEPT ![r].mem = state]

\* ... under a new in-memory state.
LEMMA RememberedIs ==
    ASSUME NEW f, NEW r \in DOMAIN f, IsLocal(f[r]), NEW state
    PROVE  /\ DOMAIN Remembered(f, r, state) = DOMAIN f
           /\ \A q \in DOMAIN f \ {r} : Remembered(f, r, state)[q] = f[q]
           /\ IsLocal(Remembered(f, r, state)[r])
           /\ Remembered(f, r, state)[r].mem = state
           /\ Remembered(f, r, state)[r].keys = f[r].keys
           /\ Remembered(f, r, state)[r].at = f[r].at
           /\ Remembered(f, r, state)[r].handles = f[r].handles
<1> DEFINE l  == f[r]
           l1 == [l EXCEPT !.mem = state]
           f1 == [f EXCEPT ![r] = l1]
<1>1. l1 = [mem |-> state, keys |-> l.keys, active |-> l.active, at |-> l.at,
            handles |-> l.handles, cut |-> l.cut]
  BY LocalForms
<1>2. /\ l1.mem = state /\ l1.keys = l.keys /\ l1.at = l.at /\ l1.handles = l.handles
      /\ IsLocal(l1)
  <2> HIDE DEF l1
  <2> QED
    BY <1>1 DEF IsLocal
<1>3. Remembered(f, r, state) = f1
  BY DEF Remembered
<1>4. DOMAIN f1 = DOMAIN f /\ f1[r] = l1 /\ \A q \in DOMAIN f \ {r} : f1[q] = f[q]
  <2> HIDE DEF l1
  <2> QED
    OBVIOUS
<1>5. IsLocal(f1[r]) /\ f1[r].mem = state /\ f1[r].keys = l.keys /\ f1[r].at = l.at
      /\ f1[r].handles = l.handles
  <2> HIDE DEF f1, l1, l
  <2> QED
    BY <1>2, <1>4
<1> HIDE DEF f1
<1> QED
  BY <1>3, <1>4, <1>5

-----------------------------------------------------------------------------
(* A run that ends, and a run that goes on with the next stage.            *)

\* What is shown of every step.
Kept == IInv' /\ file'.revisions >= file.revisions

\* A step that keeps the number of revisions loses none.
LEMMA SameRevisions ==
    ASSUME IInv, file'.revisions = file.revisions
    PROVE  file'.revisions >= file.revisions
<1>1. file.revisions \in 0..changes /\ changes \in Nat
  BY BoundAssumption DEF IInv, StateIsSound, IsTyped
<1> QED
  BY <1>1

\* A runner that is idle has nothing to be wrong about.
LEMMA IdleIsSound ==
    ASSUME NEW st, NEW n, NEW keys
    PROVE  RunIsSound(Idle, "idle", st, n, keys)
<1>1. /\ Idle = [mem |-> Idle.mem, keys |-> Idle.keys, active |-> Idle.active,
                 at |-> Idle.at, handles |-> Idle.handles, cut |-> Idle.cut]
      /\ Idle.at = 0 /\ Idle.handles = {}
  BY DEF Idle
<1>2. 0 \in 0..(Len(Order) + 1)
  BY OrderFacts
<1> QED
  BY <1>1, <1>2 DEF RunIsSound

\* A run ends and leaves a sound file in which nothing runs.
LEMMA EndKeeps ==
    ASSUME IInv, NEW r \in Runner, pc[r] # "idle", End(r), published' = published,
           StateIsSound(file', changes, published), file'.revisions = file.revisions,
           Running(file') = {} \/ crashes > 0
    PROVE  Kept
<1>1. runLock = r
  BY DEF IInv
<1>2. /\ pc' = [pc EXCEPT ![r] = "idle"] /\ run' = [run EXCEPT ![r] = Idle]
      /\ runLock' = None
      /\ UNCHANGED <<source, cancelFile, foreign, met, changes, crashes>>
  BY DEF End
<1>3. IsTyped /\ KeysAreWhole
  BY DEF IInv
<1>4. pc'[r] = "idle" /\ run'[r] = Idle
  BY <1>2, <1>3 DEF IsTyped
<1>5. \A q \in Runner \ {r} : pc'[q] = pc[q] /\ run'[q] = run[q]
  BY <1>2, <1>3 DEF IsTyped
<1>6. IsTyped'
  BY <1>2, <1>3 DEF IsTyped, Label
<1>7. KeysAreWhole'
  BY <1>2, <1>3 DEF KeysAreWhole
<1>8. StateIsSound(file, changes, published)'
  BY <1>2
<1>9. RunIsSound(run[r], pc[r], file, changes, published)'
  BY <1>4, IdleIsSound
<1>10. Running(file)' = {} \/ crashes' > 0
  BY <1>2
<1>11. IInv'
  BY <1>1, <1>4, <1>5, <1>6, <1>7, <1>8, <1>9, <1>10, StepIsSound
<1> QED
  BY <1>11, SameRevisions DEF Kept

\* A run saves a sound state in which nothing runs and goes on.
LEMMA ContinueKeeps ==
    ASSUME IInv, NEW r \in Runner, pc[r] # "idle", run[r].at <= Len(Order), NEW state,
           NEW handles \in SUBSET Stage, NEW cancelled,
           Continue(r, state, handles, cancelled), published' = published,
           StateIsSound(state, changes, published), state.revisions = file.revisions,
           Running(state) = {}, \A d \in handles : run[r].keys[d] \in published
    PROVE  Kept
<1>1. /\ runLock = r /\ RunIsSound(run[r], pc[r], file, changes, published)
      /\ run[r].at \in 1..(Len(Order) + 1)
  BY OthersAreIdle
<1>2. /\ file' = state
      /\ run' = Moved(run, r, state, handles, cancelled)
      /\ pc' = [pc EXCEPT ![r] = "stage"]
      /\ UNCHANGED <<source, cancelFile, runLock, foreign, met, changes, crashes>>
  BY DEF Continue, Moved
<1>3. IsTyped /\ KeysAreWhole
  BY DEF IInv
<1> DEFINE l == run[r]
           m == run'[r]
<1>4. /\ DOMAIN run' = Runner
      /\ \A q \in Runner \ {r} : run'[q] = run[q]
      /\ IsLocal(m) /\ m.mem = state /\ m.keys = l.keys /\ m.at = l.at + 1
      /\ m.handles = l.handles \cup handles
  <2>1. r \in DOMAIN run /\ DOMAIN run = Runner /\ IsLocal(run[r])
    BY <1>1, <1>3 DEF IsTyped, RunIsSound, IsLocal
  <2> QED
    BY <1>2, <2>1, MovedIs
<1>5. pc'[r] = "stage" /\ \A q \in Runner \ {r} : pc'[q] = pc[q]
  BY <1>2, <1>3 DEF IsTyped
<1>6. IsTyped'
  BY <1>2, <1>3, <1>4 DEF IsTyped, Label
<1>7. KeysAreWhole'
  BY <1>2, <1>3 DEF KeysAreWhole
<1>8. StateIsSound(file, changes, published)'
  BY <1>2
<1>9. RunIsSound(run[r], pc[r], file, changes, published)'
  <2>2. m.at \in 0..(Len(Order) + 1) /\ m.at # 0
    <3>1. l.at \in 1..Len(Order)
      BY <1>1, OrderFacts
    <3> HIDE DEF l, m
    <3> QED
      BY <1>4, <3>1, OrderFacts
  <2>3. /\ l.handles \subseteq Stage /\ Nested(l.keys)
        /\ \A d \in l.handles : l.keys[d] \in published
    BY <1>1 DEF RunIsSound
  <2>4. RunIsSound(m, "stage", state, changes, published)
    <3> HIDE DEF m, l
    <3>1. \A d \in m.handles : m.keys[d] \in published
      BY <1>4, <2>3 DEF l
    <3> QED
      BY <1>4, <2>2, <2>3, <3>1 DEF RunIsSound, IsLocal
  <2> QED
    BY <1>2, <1>5, <2>4
<1>10. IInv'
  BY <1>1, <1>2, <1>4, <1>5, <1>6, <1>7, <1>8, <1>9, StepIsSound
<1> QED
  BY <1>2, <1>10, SameRevisions DEF Kept

-----------------------------------------------------------------------------
(* The steps of the stage loop, one by one.                                *)

\* Inside a stage the loop is not over.
LEMMA Working ==
    ASSUME IInv, NEW r \in Runner, pc[r] \notin {"idle", "stage"}
    PROVE  run[r].at <= Len(Order)
BY OthersAreIdle DEF RunIsSound

LEMMA LackInputsKeeps ==
    ASSUME IInv, NEW r \in Runner, LackInputs(r)
    PROVE  Kept
<1>1. /\ pc[r] # "idle" /\ run[r].at <= Len(Order)
      /\ Continue(r, Settled(r, "unavailable"), {}, FALSE) /\ published' = published
  BY DEF LackInputs, AtStage
<1>2. "unavailable" \in Status /\ "unavailable" # "complete" /\ "unavailable" # "running"
  BY DEF Status
<1>3. /\ StateIsSound(Settled(r, "unavailable"), changes, published)
      /\ Settled(r, "unavailable").revisions = file.revisions
      /\ Running(Settled(r, "unavailable")) = {}
  BY <1>1, <1>2, SettledIsSound
<1> QED
  BY <1>1, <1>3, ContinueKeeps

LEMMA ReuseKeeps ==
    ASSUME IInv, NEW r \in Runner, Reuse(r)
    PROVE  Kept
<1>1. /\ pc[r] # "idle" /\ run[r].at <= Len(Order) /\ CurKey(r) \in published
      /\ Continue(r, Settled(r, "complete"), {Cur(r)}, FALSE) /\ published' = published
  BY DEF Reuse, Ready, AtStage, Stored
<1>2. "complete" \in Status /\ "complete" # "running"
  BY DEF Status
<1>3. /\ StateIsSound(Settled(r, "complete"), changes, published)
      /\ Settled(r, "complete").revisions = file.revisions
      /\ Running(Settled(r, "complete")) = {}
      /\ Cur(r) \in Stage
  BY <1>1, <1>2, SettledIsSound
<1>4. \A d \in {Cur(r)} : run[r].keys[d] \in published
  BY <1>1 DEF CurKey
<1>5. {Cur(r)} \in SUBSET Stage
  BY <1>3
<1> QED
  BY <1>1, <1>3, <1>4, <1>5, ContinueKeeps

\* A run that is cancelled records its stage as failed.
LEMMA StopKeeps ==
    ASSUME IInv, NEW r \in Runner, pc[r] # "idle", run[r].at <= Len(Order), StopRun(r)
    PROVE  Kept
<1>1. file' = Settled(r, "failed") /\ End(r) /\ published' = published
  BY DEF StopRun
<1>2. "failed" \in Status /\ "failed" # "complete" /\ "failed" # "running"
  BY DEF Status
<1>3. /\ StateIsSound(Settled(r, "failed"), changes, published)
      /\ Settled(r, "failed").revisions = file.revisions
      /\ Running(Settled(r, "failed")) = {}
  BY <1>2, SettledIsSound
<1> QED
  BY <1>1, <1>3, EndKeeps

LEMMA StopBeforeStageKeeps ==
    ASSUME IInv, NEW r \in Runner, StopBeforeStage(r)
    PROVE  Kept
BY StopKeeps DEF StopBeforeStage, Ready, AtStage

LEMMA StopProducingKeeps ==
    ASSUME IInv, NEW r \in Runner, StopProducing(r)
    PROVE  Kept
<1>1. pc[r] \notin {"idle", "stage"} /\ StopRun(r)
  BY DEF StopProducing
<1> QED
  BY <1>1, Working, StopKeeps

\* A run that ends between two stages leaves the file alone.
LEMMA EndAtStageKeeps ==
    ASSUME IInv, NEW r \in Runner, pc[r] = "stage", End(r), UNCHANGED <<file, published>>
    PROVE  Kept
<1>1. Running(file) = {}
  BY OthersAreIdle DEF RunIsSound
<1>2. StateIsSound(file, changes, published)
  BY DEF IInv
<1> QED
  BY <1>1, <1>2, EndKeeps

LEMMA FindCorruptKeeps ==
    ASSUME IInv, NEW r \in Runner, FindCorrupt(r)
    PROVE  Kept
BY EndAtStageKeeps DEF FindCorrupt, Ready, AtStage

LEMMA ReturnKeeps ==
    ASSUME IInv, NEW r \in Runner, Return(r)
    PROVE  Kept
BY EndAtStageKeeps DEF Return

\* A stage that fails is recorded, and the run goes on.
LEMMA FailureKeeps ==
    ASSUME IInv, NEW r \in Runner, pc[r] \notin {"idle", "stage"},
           NEW status \in {"failed", "unavailable"}, NEW cancelled,
           Continue(r, Settled(r, status), {}, cancelled), published' = published
    PROVE  Kept
<1>1. run[r].at <= Len(Order)
  BY Working
<1>2. status \in Status /\ status # "complete" /\ status # "running"
  BY DEF Status
<1>3. /\ StateIsSound(Settled(r, status), changes, published)
      /\ Settled(r, status).revisions = file.revisions
      /\ Running(Settled(r, status)) = {}
  BY <1>1, <1>2, SettledIsSound
<1> QED
  BY <1>1, <1>3, ContinueKeeps

LEMMA GiveUpWaitingKeeps ==
    ASSUME IInv, NEW r \in Runner, GiveUpWaiting(r)
    PROVE  Kept
BY FailureKeeps DEF GiveUpWaiting

LEMMA TimeOutKeeps ==
    ASSUME IInv, NEW r \in Runner, TimeOut(r)
    PROVE  Kept
BY FailureKeeps DEF TimeOut

LEMMA ProducerRaisesKeeps ==
    ASSUME IInv, NEW r \in Runner, ProducerRaises(r)
    PROVE  Kept
<1>1. PICK status \in {"unavailable", "failed"} :
        Continue(r, Settled(r, status), {}, FALSE)
  BY DEF ProducerRaises
<1>2. pc[r] \notin {"idle", "stage"} /\ published' = published
  BY DEF ProducerRaises
<1> QED
  BY <1>1, <1>2, FailureKeeps

\* A stage whose artifact is published is recorded as complete.
LEMMA SuccessKeeps ==
    ASSUME IInv, NEW r \in Runner, pc[r] \notin {"idle", "stage"}, CurKey(r) \in published,
           Continue(r, Settled(r, "complete"), {Cur(r)}, FALSE), published' = published
    PROVE  Kept
<1>1. run[r].at <= Len(Order)
  BY Working
<1>2. "complete" \in Status /\ "complete" # "running"
  BY DEF Status
<1>3. /\ StateIsSound(Settled(r, "complete"), changes, published)
      /\ Settled(r, "complete").revisions = file.revisions
      /\ Running(Settled(r, "complete")) = {}
      /\ Cur(r) \in Stage
  BY <1>1, <1>2, SettledIsSound
<1>4. /\ {Cur(r)} \in SUBSET Stage
      /\ \A d \in {Cur(r)} : run[r].keys[d] \in published
  BY <1>3 DEF CurKey
<1> QED
  BY <1>1, <1>3, <1>4, ContinueKeeps

LEMMA AdoptKeeps ==
    ASSUME IInv, NEW r \in Runner, Adopt(r)
    PROVE  Kept
<1>1. pc[r] \notin {"idle", "stage"} /\ CurKey(r) \in published /\ published' = published
  BY DEF Adopt
<1>2. CASE Continue(r, Settled(r, "complete"), {Cur(r)}, FALSE)
  BY <1>1, <1>2, SuccessKeeps
<1>3. CASE Continue(r, Settled(r, "failed"), {}, FALSE)
  BY <1>1, <1>3, FailureKeeps
<1> QED
  BY <1>2, <1>3 DEF Adopt

LEMMA SolveFailsKeeps ==
    ASSUME IInv, NEW r \in Runner, SolveFails(r)
    PROVE  Kept
<1>1. pc[r] \notin {"idle", "stage"} /\ StopRun(r)
  BY DEF SolveFails, StopRun
<1> QED
  BY <1>1, Working, StopKeeps

LEMMA SolveReturnsKeeps ==
    ASSUME IInv, NEW r \in Runner, SolveReturns(r)
    PROVE  Kept
<1>1. /\ pc[r] = "solved" /\ pc[r] \notin {"idle", "stage"}
      /\ file' = Settled(r, "complete") /\ End(r) /\ published' = published
  BY DEF SolveReturns
<1>2. run[r].at <= Len(Order) /\ CurKey(r) \in published
  BY <1>1, Working, OthersAreIdle DEF RunIsSound, CurKey, Cur
<1>3. "complete" \in Status /\ "complete" # "running"
  BY DEF Status
<1>4. /\ StateIsSound(Settled(r, "complete"), changes, published)
      /\ Settled(r, "complete").revisions = file.revisions
      /\ Running(Settled(r, "complete")) = {}
  BY <1>1, <1>2, <1>3, SettledIsSound
<1> QED
  BY <1>1, <1>4, EndKeeps

\* A publisher also records the request its artifact answers.
LEMMA LinkIsSound ==
    ASSUME NEW state, StateIsSound(state, changes, published), NEW s \in Stage, NEW key,
           key.stage = s
    PROVE  /\ StateIsSound(Link(state, s, key), changes, published)
           /\ Link(state, s, key).revisions = state.revisions
           /\ Running(Link(state, s, key)) \subseteq
                Running(state) \cup (IF state.stages[s].status = "running" THEN {s} ELSE {})
<1> DEFINE old == state.stages[s]
           record == [status |-> old.status, key |-> old.key, request |-> key]
<1>1. Link(state, s, key) = Recorded(state, s, record)
  BY SettledIsRecorded, ZenonT(30)
<1>2. RecordIsSound(old, s, published)
  BY DEF StateIsSound
<1>3. RecordIsSound(record, s, published)
  <2> HIDE DEF old
  <2> QED
    BY <1>2 DEF RecordIsSound
<1>4. record.status = old.status
  OBVIOUS
<1> HIDE DEF record
<1>5. /\ StateIsSound(Recorded(state, s, record), changes, published)
      /\ Recorded(state, s, record).revisions = state.revisions
      /\ Running(Recorded(state, s, record)) =
            (Running(state) \ {s}) \cup (IF record.status = "running" THEN {s} ELSE {})
  BY <1>3, RecordedIsSound
<1> QED
  BY <1>1, <1>4, <1>5

LEMMA CompleteKeeps ==
    ASSUME IInv, NEW r \in Runner, Complete(r)
    PROVE  Kept
<1> DEFINE state == Settled(r, "complete")
           next == IF Cur(r) \in Publishers
                   THEN [state EXCEPT !.stages[Cur(r)].request = CurKey(r)]
                   ELSE state
<1>1. /\ pc[r] = "published" /\ pc[r] \notin {"idle", "stage"}
      /\ Continue(r, next, {Cur(r)}, FALSE) /\ published' = published
  BY DEF Complete
<1>2. run[r].at <= Len(Order) /\ CurKey(r) \in published
  BY <1>1, Working, OthersAreIdle DEF RunIsSound, CurKey, Cur
<1>3. "complete" \in Status /\ "complete" # "running"
  BY DEF Status
<1>4. /\ StateIsSound(state, changes, published) /\ state.revisions = file.revisions
      /\ Running(state) = {} /\ Cur(r) \in Stage /\ CurKey(r).stage = Cur(r)
  BY <1>1, <1>2, <1>3, SettledIsSound
<1>5. /\ StateIsSound(next, changes, published) /\ next.revisions = file.revisions
      /\ Running(next) = {}
  <2>1. CASE Cur(r) \in Publishers
    <3>1. next = Link(state, Cur(r), CurKey(r))
      BY <2>1 DEF Link
    <3>2. state.stages[Cur(r)].status # "running"
      BY <1>4 DEF Running
    <3> HIDE DEF state, next
    <3>3. /\ StateIsSound(Link(state, Cur(r), CurKey(r)), changes, published)
          /\ Link(state, Cur(r), CurKey(r)).revisions = state.revisions
          /\ Running(Link(state, Cur(r), CurKey(r))) = {}
      BY <1>4, <3>2, LinkIsSound
    <3> QED
      BY <1>4, <3>1, <3>3
  <2>2. CASE Cur(r) \notin Publishers
    BY <1>4, <2>2
  <2> QED
    BY <2>1, <2>2
<1>6. /\ {Cur(r)} \in SUBSET Stage
      /\ \A d \in {Cur(r)} : run[r].keys[d] \in published
  BY <1>2, <1>4 DEF CurKey
<1> HIDE DEF next, state
<1> QED
  BY <1>1, <1>2, <1>5, <1>6, ContinueKeeps

LEMMA SkipKeeps ==
    ASSUME IInv, NEW r \in Runner, Skip(r)
    PROVE  Kept
<1> DEFINE l == run[r]
           m == run'[r]
           s == Cur(r)
           old == run[r].mem.stages[s]
           status == IF old.key # CurKey(r) /\ old.status # "not-run"
                     THEN "stale" ELSE old.status
           record == [status |-> status, key |-> old.key, request |-> old.request]
<1>1. /\ pc[r] = "stage" /\ l.at <= Len(Order)
      /\ run' = Passed(run, r, Arrived(r))
      /\ UNCHANGED <<file, source, cancelFile, runLock, storeVars, pc, met, changes, crashes>>
  BY DEF Skip, AtStage, Passed
<1>2. /\ runLock = r /\ RunIsSound(l, pc[r], file, changes, published)
      /\ StateIsSound(l.mem, changes, published)
      /\ l.at \in 1..Len(Order)
  BY <1>1, OthersAreIdle, OrderFacts
<1>3. s \in Stage
  BY <1>2, OrderFacts DEF Cur
<1>4. Running(l.mem) = {} /\ Running(file) = {} /\ l.mem.revisions = file.revisions
  BY <1>1, <1>2 DEF RunIsSound
<1>5. Arrived(r) = Recorded(l.mem, s, record)
  <2>1. Arrived(r) = Mark(l.mem, s, status)
    BY DEF Arrived, Mark
  <2> HIDE DEF l, s, status
  <2> QED
    BY <1>2, <1>3, <2>1, SettledIsRecorded DEF l, s
<1>6. RecordIsSound(record, s, published) /\ record.status # "running"
  <2>1. RecordIsSound(old, s, published) /\ old.status # "running"
    BY <1>2, <1>3, <1>4 DEF StateIsSound, Running
  <2>2. "stale" \in Status /\ "stale" # "complete" /\ "stale" # "running"
    BY DEF Status
  <2> HIDE DEF old
  <2>3. status = "stale" \/ status = old.status
    OBVIOUS
  <2> HIDE DEF status
  <2>4. record.status = status /\ record.key = old.key /\ record.request = old.request
    OBVIOUS
  <2> HIDE DEF record
  <2>5. record = [status |-> record.status, key |-> record.key, request |-> record.request]
    BY DEF record
  <2> QED
    BY <2>1, <2>2, <2>3, <2>4, <2>5 DEF RecordIsSound
<1>7. /\ StateIsSound(Arrived(r), changes, published)
      /\ Arrived(r).revisions = file.revisions
      /\ Running(Arrived(r)) = {}
  <2> HIDE DEF record, s, l
  <2>1. /\ StateIsSound(Recorded(l.mem, s, record), changes, published)
        /\ Recorded(l.mem, s, record).revisions = l.mem.revisions
        /\ Running(Recorded(l.mem, s, record)) =
            (Running(l.mem) \ {s}) \cup (IF record.status = "running" THEN {s} ELSE {})
    BY <1>2, <1>3, <1>6, RecordedIsSound
  <2> QED
    BY <1>4, <1>5, <1>6, <2>1
<1>8. IsTyped /\ KeysAreWhole
  BY DEF IInv
<1>9. /\ DOMAIN run' = Runner
      /\ \A q \in Runner \ {r} : run'[q] = run[q]
      /\ IsLocal(m) /\ m.mem = Arrived(r) /\ m.keys = l.keys /\ m.at = l.at + 1
      /\ m.handles = l.handles
  <2>1. r \in DOMAIN run /\ DOMAIN run = Runner /\ IsLocal(run[r])
    BY <1>2, <1>8 DEF IsTyped, RunIsSound, IsLocal
  <2> QED
    BY <1>1, <2>1, PassedIs
<1>10. IsTyped' /\ KeysAreWhole' /\ StateIsSound(file, changes, published)'
  BY <1>1, <1>8, <1>9 DEF IsTyped, KeysAreWhole, IInv, storeVars
<1>11. RunIsSound(run[r], pc[r], file, changes, published)'
  <2>1. m.at \in 0..(Len(Order) + 1) /\ m.at # 0
    <3> HIDE DEF l, m
    <3> QED
      BY <1>2, <1>9, OrderFacts
  <2>2. /\ l.handles \subseteq Stage /\ Nested(l.keys)
        /\ \A d \in l.handles : l.keys[d] \in published
    BY <1>1, <1>2 DEF RunIsSound
  <2>3. RunIsSound(m, "stage", file, changes, published)
    <3> HIDE DEF m, l
    <3> QED
      BY <1>4, <1>7, <1>9, <2>1, <2>2 DEF RunIsSound, IsLocal
  <2> QED
    BY <1>1, <2>3 DEF storeVars
<1>12. IInv'
  BY <1>1, <1>2, <1>9, <1>10, <1>11, StepIsSound
<1> QED
  BY <1>1, <1>12, SameRevisions DEF Kept

LEMMA CrashKeeps ==
    ASSUME IInv, NEW r \in Runner, Crash(r)
    PROVE  Kept
<1>1. /\ pc[r] # "idle" /\ crashes' = crashes + 1 /\ crashes < MaxCrashes
      /\ pc' = [pc EXCEPT ![r] = "idle"] /\ run' = [run EXCEPT ![r] = Idle]
      /\ runLock' = None
      /\ UNCHANGED <<file, source, cancelFile, storeVars, met, changes>>
  BY DEF Crash
<1>2. runLock = r /\ IsTyped /\ KeysAreWhole /\ StateIsSound(file, changes, published)
  BY <1>1 DEF IInv
<1>3. /\ pc'[r] = "idle" /\ run'[r] = Idle
      /\ \A q \in Runner \ {r} : pc'[q] = pc[q] /\ run'[q] = run[q]
  BY <1>1, <1>2 DEF IsTyped
<1>4. crashes' \in 0..MaxCrashes /\ crashes' > 0
  BY <1>1, <1>2, BoundAssumption DEF IsTyped
<1>5. IsTyped' /\ KeysAreWhole' /\ StateIsSound(file, changes, published)'
  <2>1. IsTyped'
    BY <1>1, <1>2, <1>4 DEF IsTyped, Label
  <2> QED
    BY <1>1, <1>2, <2>1 DEF KeysAreWhole, storeVars
<1>6. RunIsSound(run[r], pc[r], file, changes, published)'
  BY <1>3, IdleIsSound
<1>7. IInv'
  BY <1>2, <1>3, <1>4, <1>5, <1>6, StepIsSound
<1> QED
  BY <1>1, <1>7, SameRevisions DEF Kept

-----------------------------------------------------------------------------
(* Publication, and the start of a stage.                                  *)

\* Publication takes nothing away from what is sound.
LEMMA PublishedGrows ==
    ASSUME IInv, NEW more, published \subseteq more
    PROVE  /\ StateIsSound(file, changes, more)
           /\ \A r \in Runner : RunIsSound(run[r], pc[r], file, changes, more)
<1>1. changes \in Nat /\ changes <= changes
  BY BoundAssumption DEF IInv, IsTyped
<1> QED
  BY <1>1, Grown, RunGrown DEF IInv

\* The key a run asks for names a stage, and comes of published artifacts.
LEMMA CurKeyIsWhole ==
    ASSUME IInv, NEW r \in Runner, pc[r] \notin {"idle", "stage"}
    PROVE  /\ CurKey(r).stage \in Stage
           /\ CurKey(r).stage # Sync =>
                \A d \in Dependencies[CurKey(r).stage] : CurKey(r).inputs[d] \in published
<1>1. RunIsSound(run[r], pc[r], file, changes, published) /\ run[r].at \in 1..Len(Order)
  BY OthersAreIdle, Working, OrderFacts
<1>2. Cur(r) \in Stage
  BY <1>1, OrderFacts DEF Cur
<1>3. /\ CurKey(r).stage = Cur(r)
      /\ \A d \in Dependencies[Cur(r)] : CurKey(r).inputs[d] = run[r].keys[d]
  BY <1>1, <1>2 DEF RunIsSound, Nested, CurKey
<1>4. CASE pc[r] \in {"solving", "solved"}
  BY <1>1, <1>2, <1>3, <1>4 DEF RunIsSound, Cur
<1>5. CASE pc[r] \in {"creating", "producing", "published"}
  BY <1>1, <1>2, <1>3, <1>5 DEF RunIsSound, Cur
<1>6. pc[r] \in Label
  BY DEF IInv, IsTyped
<1> QED
  BY <1>4, <1>5, <1>6 DEF Label

\* A run gets on inside a stage without saving.
LEMMA LabelKeeps ==
    ASSUME IInv, NEW r \in Runner, pc[r] # "idle",
           NEW label \in Label \ {"idle"}, pc' = [pc EXCEPT ![r] = label],
           UNCHANGED <<file, source, cancelFile, runLock, foreign, run, met, changes, crashes>>,
           published \subseteq published', KeysAreWhole',
           RunIsSound(run[r], label, file, changes, published')
    PROVE  Kept
<1>1. runLock = r /\ IsTyped
  BY DEF IInv
<1>2. IsTyped' /\ pc'[r] = label /\ \A q \in Runner \ {r} : pc'[q] = pc[q]
  BY <1>1 DEF IsTyped
<1>3. StateIsSound(file, changes, published)'
  BY PublishedGrows
<1>4. RunIsSound(run[r], pc[r], file, changes, published)'
  BY <1>2
<1>5. IInv'
  BY <1>1, <1>2, <1>3, <1>4, StepIsSound
<1> QED
  BY <1>5, SameRevisions DEF Kept

LEMMA CallProducerKeeps ==
    ASSUME IInv, NEW r \in Runner, CallProducer(r)
    PROVE  Kept
<1>1. /\ pc[r] = "creating" /\ pc' = [pc EXCEPT ![r] = "producing"]
      /\ UNCHANGED <<file, source, cancelFile, runLock, foreign, run, met, changes, crashes>>
      /\ published' = published
  BY DEF CallProducer, storeVars
<1>2. RunIsSound(run[r], "creating", file, changes, published)
  BY <1>1, OthersAreIdle
<1>3. RunIsSound(run[r], "producing", file, changes, published')
  BY <1>1, <1>2 DEF RunIsSound
<1>4. KeysAreWhole'
  BY <1>1 DEF IInv, KeysAreWhole
<1>5. "producing" \in Label \ {"idle"}
  BY DEF Label
<1> QED
  BY <1>1, <1>3, <1>4, <1>5, LabelKeeps

\* The key a run is at is published.
LEMMA PublicationKeeps ==
    ASSUME IInv, NEW r \in Runner, NEW label \in {"published", "solved"},
           pc[r] = (IF label = "solved" THEN "solving" ELSE "producing"),
           published' = published \cup {CurKey(r)}, pc' = [pc EXCEPT ![r] = label],
           UNCHANGED <<file, source, cancelFile, runLock, foreign, run, met, changes, crashes>>
    PROVE  Kept
<1>1. pc[r] \notin {"idle", "stage"}
  OBVIOUS
<1>2. KeysAreWhole'
  BY <1>1, CurKeyIsWhole DEF IInv, KeysAreWhole
<1>3. RunIsSound(run[r], pc[r], file, changes, published')
  BY PublishedGrows
<1>4. CurKey(r) = run[r].keys[Order[run[r].at]]
  BY DEF CurKey, Cur
<1>5. RunIsSound(run[r], label, file, changes, published')
  BY <1>3, <1>4 DEF RunIsSound
<1>6. label \in Label \ {"idle"}
  BY DEF Label
<1> QED
  BY <1>1, <1>2, <1>5, <1>6, LabelKeeps

LEMMA PublishKeeps ==
    ASSUME IInv, NEW r \in Runner, Publish(r)
    PROVE  Kept
BY PublicationKeeps DEF Publish

LEMMA SolvePublishesKeeps ==
    ASSUME IInv, NEW r \in Runner, SolvePublishes(r)
    PROVE  Kept
BY PublicationKeeps DEF SolvePublishes

LEMMA StartStageKeeps ==
    ASSUME IInv, NEW r \in Runner, StartStage(r)
    PROVE  Kept
<1> DEFINE l == run[r]
           m == run'[r]
           state == Settled(r, "running")
           label == IF Cur(r) \in Publishers THEN "producing" ELSE "creating"
<1>1. /\ pc[r] = "stage" /\ l.at <= Len(Order)
      /\ Dependencies[Cur(r)] \subseteq l.handles
      /\ file' = state /\ run' = Remembered(run, r, state)
      /\ pc' = [pc EXCEPT ![r] = label]
      /\ UNCHANGED <<source, cancelFile, runLock, storeVars, met, changes, crashes>>
  BY DEF StartStage, Ready, AtStage, Remembered
<1>2. "running" \in Status /\ "running" # "complete"
  BY DEF Status
<1>3. /\ l.at \in 1..Len(Order) /\ Cur(r) \in Stage
      /\ StateIsSound(state, changes, published) /\ state.revisions = file.revisions
      /\ Running(state) = {Cur(r)}
  BY <1>1, <1>2, SettledIsSound
<1>4. /\ runLock = r /\ RunIsSound(l, pc[r], file, changes, published)
      /\ IsTyped /\ KeysAreWhole
  BY <1>1, OthersAreIdle DEF IInv
<1>5. /\ DOMAIN run' = Runner
      /\ \A q \in Runner \ {r} : run'[q] = run[q]
      /\ IsLocal(m) /\ m.mem = state /\ m.keys = l.keys /\ m.at = l.at
      /\ m.handles = l.handles
  <2>1. r \in DOMAIN run /\ DOMAIN run = Runner /\ IsLocal(run[r])
    BY <1>4 DEF IsTyped, RunIsSound, IsLocal
  <2> QED
    BY <1>1, <2>1, RememberedIs
<1>6. pc'[r] = label /\ \A q \in Runner \ {r} : pc'[q] = pc[q]
  BY <1>1, <1>4 DEF IsTyped
<1>7. IsTyped' /\ KeysAreWhole' /\ StateIsSound(file, changes, published)'
  <2>1. label \in Label
    BY DEF Label
  <2> HIDE DEF label, state
  <2> QED
    BY <1>1, <1>3, <1>4, <1>5, <2>1 DEF IsTyped, KeysAreWhole, storeVars
<1>8. RunIsSound(run[r], pc[r], file, changes, published)'
  <2>1. /\ l.handles \subseteq Stage /\ Nested(l.keys)
        /\ \A d \in l.handles : l.keys[d] \in published
    BY <1>1, <1>4 DEF RunIsSound
  <2>2. m.at \in 0..(Len(Order) + 1) /\ m.at # 0 /\ m.at <= Len(Order)
    <3> HIDE DEF l, m
    <3> QED
      BY <1>3, <1>5, OrderFacts
  <2>3. Order[m.at] = Cur(r)
    BY <1>5 DEF Cur
  <2>4. ASSUME NEW x \in {"producing", "creating"}
        PROVE  RunIsSound(m, x, state, changes, published)
    <3> HIDE DEF m, l, state
    <3> QED
      BY <1>1, <1>3, <1>5, <2>1, <2>2, <2>3 DEF RunIsSound, IsLocal
  <2>5. RunIsSound(m, label, state, changes, published)
    BY <2>4
  <2> QED
    BY <1>1, <1>6, <2>5 DEF storeVars
<1>9. label # "idle"
  OBVIOUS
<1>10. IInv'
  BY <1>1, <1>4, <1>5, <1>6, <1>7, <1>8, <1>9, StepIsSound
<1> QED
  BY <1>1, <1>3, <1>10, SameRevisions DEF Kept

-----------------------------------------------------------------------------
(* analyze and revise_sync_offset as they begin, and the steps of others.  *)

\* The updates that analyze and revise_sync_offset make to the whole state.
Refreshed(state, f, g) == [state EXCEPT !.settings = f, !.generation = g]
Revised(state, n, stages) ==
    [state EXCEPT !.revisions = n, !.manual = n, !.stages = stages]

\* The state with new settings and generations.
LEMMA RefreshedIs ==
    ASSUME NEW state, IsState(state), NEW f, NEW g
    PROVE  Refreshed(state, f, g) =
            [settings |-> f, generation |-> g, revisions |-> state.revisions,
             manual |-> state.manual, stages |-> state.stages]
<1> DEFINE one == [state EXCEPT !.settings = f]
<1>1. one = [settings |-> f, generation |-> state.generation,
             revisions |-> state.revisions, manual |-> state.manual,
             stages |-> state.stages]
  BY WithForms
<1>2. state.stages = [s \in Stage |-> state.stages[s]]
  BY DEF IsState
<1>3. Refreshed(state, f, g) = [one EXCEPT !.generation = g]
  BY DEF Refreshed
<1> HIDE DEF one
<1>4. IsState(one) /\ one.settings = f /\ one.revisions = state.revisions
      /\ one.manual = state.manual /\ one.stages = state.stages
  BY <1>1, <1>2 DEF IsState
<1>5. [one EXCEPT !.generation = g] =
        [settings |-> one.settings, generation |-> g, revisions |-> one.revisions,
         manual |-> one.manual, stages |-> one.stages]
  BY <1>4, WithForms
<1> QED
  BY <1>3, <1>4, <1>5

\* The state with a new offset.
LEMMA RevisedIs ==
    ASSUME NEW state, IsState(state), NEW n, NEW stages,
           stages = [s \in Stage |-> stages[s]]
    PROVE  Revised(state, n, stages) =
            [settings |-> state.settings, generation |-> state.generation,
             revisions |-> n, manual |-> n, stages |-> stages]
<1> DEFINE one == [state EXCEPT !.revisions = n]
           two == [one EXCEPT !.manual = n]
<1>1. one = [settings |-> state.settings, generation |-> state.generation,
             revisions |-> n, manual |-> state.manual, stages |-> state.stages]
  BY WithForms
<1>2. state.stages = [s \in Stage |-> state.stages[s]]
  BY DEF IsState
<1>3. Revised(state, n, stages) = [two EXCEPT !.stages = stages]
  BY DEF Revised
<1> HIDE DEF one
<1>4. IsState(one) /\ one.settings = state.settings /\ one.generation = state.generation
      /\ one.revisions = n /\ one.stages = state.stages
  BY <1>1, <1>2 DEF IsState
<1>5. two = [settings |-> one.settings, generation |-> one.generation,
             revisions |-> one.revisions, manual |-> n, stages |-> one.stages]
  BY <1>4, WithForms
<1> HIDE DEF two
<1>6. IsState(two) /\ two.settings = state.settings /\ two.generation = state.generation
      /\ two.revisions = n /\ two.manual = n
  BY <1>2, <1>4, <1>5 DEF IsState
<1>7. [two EXCEPT !.stages = stages] =
        [settings |-> two.settings, generation |-> two.generation,
         revisions |-> two.revisions, manual |-> two.manual, stages |-> stages]
  BY <1>6, WithForms
<1> QED
  BY <1>3, <1>6, <1>7

\* A step that is no run's: it touches the file only while nobody has run.lock.
LEMMA EnvironmentKeeps ==
    ASSUME IInv, UNCHANGED <<pc, run, crashes>>, IsTyped', KeysAreWhole',
           published \subseteq published', changes <= changes',
           StateIsSound(file, changes, published)',
           \/ file' = file /\ (runLock' = runLock \/ runLock \notin Runner)
           \/ runLock = None /\ Running(file') = {}
    PROVE  IInv'
<1>1. ASSUME NEW r \in Runner
      PROVE  /\ pc[r] # "idle" => runLock' = r
             /\ RunIsSound(run[r], pc[r], file, changes, published)'
  <2>1. RunIsSound(run[r], pc[r], file, changes', published')
    <3>1. changes \in Nat /\ changes' \in Nat
      BY BoundAssumption DEF IInv, IsTyped
    <3> QED
      BY <3>1, RunGrown DEF IInv
  <2>2. CASE pc[r] = "idle"
    <3>1. RunIsSound(run[r], "idle", file', changes', published')
      BY <2>1, <2>2 DEF RunIsSound
    <3> QED
      BY <3>1, <2>2
  <2>3. CASE pc[r] # "idle"
    <3>1. runLock = r /\ r # None
      BY <2>3, NobodyAssumption DEF IInv
    <3>2. file' = file /\ runLock' = runLock
      BY <3>1
    <3> QED
      BY <2>1, <3>1, <3>2
  <2> QED
    BY <2>2, <2>3
<1>2. (\A r \in Runner : pc[r] = "idle") => Running(file)' = {} \/ crashes' > 0
  BY DEF IInv, Running
<1> QED
  BY <1>1, <1>2 DEF IInv

LEMMA BeginKeeps ==
    ASSUME IInv, NEW r \in Runner, NEW through \in Stage,
           NEW settings \in Settings \cup {None}, NEW rerun \in Stage \cup {None},
           NEW reset \in BOOLEAN, Begin(r, through, settings, rerun, reset)
    PROVE  Kept
<1> DEFINE loaded == Loaded(FALSE)
           f == IF settings = None THEN loaded.settings ELSE settings
           old == loaded.generation
           g == Advanced(old, rerun)
           state == Refreshed(loaded, f, g)
           m == [mem |-> state, keys |-> Keys(state, source), active |-> Required[through],
                 at |-> 1, handles |-> {}, cut |-> FALSE]
<1>1. /\ pc[r] = "idle" /\ runLock = None /\ runLock' = r
      /\ IF rerun = None THEN UNCHANGED changes ELSE Change
      /\ cancelFile' = (cancelFile /\ ~reset)
      /\ pc' = [pc EXCEPT ![r] = "stage"]
      /\ UNCHANGED <<source, storeVars, met, crashes>>
  BY DEF Begin
<1>2. file' = state /\ run' = [run EXCEPT ![r] = m]
  BY DEF Begin, Refreshed
<1>3. IsTyped /\ KeysAreWhole /\ StateIsSound(file, changes, published)
  BY DEF IInv
<1>4. /\ StateIsSound(loaded, changes, published)
      /\ loaded.revisions = file.revisions
      /\ Running(loaded) = {}
  <2>1. /\ StateIsSound(loaded, changes, published)
        /\ loaded = [settings |-> file.settings, generation |-> file.generation,
                     revisions |-> file.revisions, manual |-> file.manual,
                     stages |-> Seen(file, Keys(file, source), FALSE)]
        /\ Running(loaded) = {}
    BY <1>3, LoadedIsSound
  <2> HIDE DEF loaded
  <2> QED
    BY <2>1
<1> HIDE DEF loaded
<1>5. /\ changes \in Nat /\ changes' \in 0..MaxChanges
      /\ changes' = IF rerun = None THEN changes ELSE changes + 1
      /\ changes <= changes' /\ source \in 0..changes'
  BY <1>1, <1>3, BoundAssumption DEF IsTyped, Change
<1>6. f \in Settings \cup {Unset}
  BY <1>4 DEF StateIsSound
<1>7. g \in [Stage -> 0..changes']
  <2>1. old \in [Stage -> 0..changes]
    BY <1>4 DEF StateIsSound
  <2> HIDE DEF old
  <2>2. CASE rerun = None
    BY <2>1, <2>2, <1>5 DEF Advanced
  <2>3. CASE rerun # None
    <3>1. rerun \in Stage /\ old[rerun] \in 0..changes
      BY <2>1, <2>3
    <3>2. 0..changes \subseteq 0..(changes + 1) /\ old[rerun] + 1 \in 0..(changes + 1)
      BY <3>1, <1>5
    <3>3. g \in [Stage -> 0..(changes + 1)]
      <4>1. \A x \in 0..(changes + 1) :
                [old EXCEPT ![rerun] = x] \in [Stage -> 0..(changes + 1)]
        BY <2>1, <3>2
      <4> QED
        BY <2>3, <3>2, <4>1 DEF Advanced
    <3> QED
      BY <2>3, <3>3, <1>5
  <2> QED
    BY <2>2, <2>3
<1> HIDE DEF f, g
<1>8. /\ state.settings = f /\ state.generation = g
      /\ state.revisions = loaded.revisions /\ state.manual = loaded.manual
      /\ state.stages = loaded.stages /\ IsState(state)
  <2>1. IsState(loaded) /\ loaded.stages = [s \in Stage |-> loaded.stages[s]]
    BY <1>4 DEF StateIsSound, IsState
  <2>2. state = [settings |-> f, generation |-> g, revisions |-> loaded.revisions,
                 manual |-> loaded.manual, stages |-> loaded.stages]
    BY <2>1, RefreshedIs
  <2> HIDE DEF state
  <2> QED
    BY <2>1, <2>2 DEF IsState
<1> HIDE DEF state
<1>9. /\ StateIsSound(state, changes', published)
      /\ state.revisions = file.revisions /\ Running(state) = {}
  <2>1. StateIsSound(loaded, changes', published)
    BY <1>4, <1>5, Grown
  <2> QED
    BY <1>4, <1>6, <1>7, <1>8, <2>1 DEF StateIsSound, Running
<1>10. /\ pc'[r] = "stage" /\ run'[r] = m /\ DOMAIN run' = Runner
       /\ \A q \in Runner \ {r} : pc'[q] = pc[q] /\ run'[q] = run[q]
  <2> HIDE DEF m
  <2> QED
    BY <1>1, <1>2, <1>3 DEF IsTyped
<1>11. IsTyped'
  <2>1. cancelFile' \in BOOLEAN
    BY <1>1, <1>3 DEF IsTyped
  <2>2. pc' \in [Runner -> Label]
    BY <1>1, <1>3 DEF IsTyped, Label
  <2> QED
    BY <1>1, <1>3, <1>5, <1>10, <2>1, <2>2 DEF IsTyped
<1>12. KeysAreWhole' /\ StateIsSound(file, changes, published)'
  BY <1>1, <1>2, <1>3, <1>9 DEF KeysAreWhole, storeVars
<1>13. RunIsSound(run[r], pc[r], file, changes, published)'
  <2>1. Nested(Keys(state, source))
    BY KeysAreNested
  <2>2. /\ IsLocal(m) /\ m.mem = state /\ m.keys = Keys(state, source) /\ m.at = 1
        /\ m.handles = {}
    BY DEF IsLocal
  <2>3. 1 \in 0..(Len(Order) + 1)
    BY OrderFacts
  <2> HIDE DEF m
  <2>4. RunIsSound(m, "stage", state, changes', published)
    BY <1>9, <2>1, <2>2, <2>3, SMTT(30) DEF RunIsSound, IsLocal
  <2> QED
    BY <1>1, <1>2, <1>10, <2>4 DEF storeVars
<1>14. IInv'
  BY <1>1, <1>10, <1>11, <1>12, <1>13, StepIsSound
<1> QED
  BY <1>2, <1>9, <1>14, SameRevisions, SMTT(30) DEF Kept

\* SettledIsRecorded, for the state and the store as they are.
LEMMA SettledForm ==
    ASSUME NEW state, StateIsSound(state, changes, published), NEW s \in Stage, NEW x, NEW k
    PROVE  Settle(state, s, x, k) =
            Recorded(state, s, [status |-> x, key |-> k, request |-> state.stages[s].request])
BY SettledIsRecorded, ZenonT(30)

\* A state in which one stage has been marked as running.
LEMMA StartedIsSound ==
    ASSUME NEW state, StateIsSound(state, changes, published), Running(state) = {},
           NEW s \in Stage, NEW key, key.stage = s
    PROVE  /\ StateIsSound(Settle(state, s, "running", key), changes, published)
           /\ Settle(state, s, "running", key).revisions = state.revisions
           /\ Running(Settle(state, s, "running", key)) = {s}
<1> DEFINE record == [status |-> "running", key |-> key, request |-> state.stages[s].request]
<1>1. Settle(state, s, "running", key) = Recorded(state, s, record)
  BY SettledForm
<1>2. RecordIsSound(record, s, published)
  <2>1. RecordIsSound(state.stages[s], s, published)
    BY DEF StateIsSound
  <2>2. "running" \in Status /\ "running" # "complete"
    BY DEF Status
  <2> QED
    BY <2>1, <2>2 DEF RecordIsSound
<1>3. record.status = "running"
  OBVIOUS
<1> HIDE DEF record
<1>4. /\ StateIsSound(Recorded(state, s, record), changes, published)
      /\ Recorded(state, s, record).revisions = state.revisions
      /\ Running(Recorded(state, s, record)) =
            (Running(state) \ {s}) \cup (IF record.status = "running" THEN {s} ELSE {})
  BY <1>2, RecordedIsSound
<1> QED
  BY <1>1, <1>3, <1>4

LEMMA SolveBeginKeeps ==
    ASSUME IInv, NEW r \in Runner, SolveBegin(r)
    PROVE  Kept
<1> DEFINE loaded == Loaded(FALSE)
           key == Keys(file, source)
           state == Settle(loaded, Sync, "running", key[Sync])
           at == CHOOSE i \in 1..Len(Order) : Order[i] = Sync
           one == [Idle EXCEPT !.mem = state]
           two == [one EXCEPT !.keys = key]
           m == [two EXCEPT !.at = at]
<1>1. /\ pc[r] = "idle" /\ runLock = None /\ runLock' = r
      /\ file' = state /\ run' = [run EXCEPT ![r] = m]
      /\ pc' = [pc EXCEPT ![r] = "solving"]
      /\ UNCHANGED <<source, cancelFile, storeVars, met, changes, crashes>>
  BY DEF SolveBegin, Settle
<1>2. IsTyped /\ KeysAreWhole /\ StateIsSound(file, changes, published)
  BY DEF IInv
<1>3. Sync \in Stage
  BY GraphAssumption
<1>4. Nested(key) /\ key[Sync].stage = Sync
  BY <1>3, KeysAreNested DEF Nested
<1>5. /\ StateIsSound(state, changes, published)
      /\ state.revisions = file.revisions
      /\ Running(state) = {Sync}
  <2>1. /\ StateIsSound(loaded, changes, published) /\ Running(loaded) = {}
        /\ loaded.revisions = file.revisions
    <3>1. /\ StateIsSound(loaded, changes, published) /\ Running(loaded) = {}
          /\ loaded = [settings |-> file.settings, generation |-> file.generation,
                       revisions |-> file.revisions, manual |-> file.manual,
                       stages |-> Seen(file, Keys(file, source), FALSE)]
      BY <1>2, LoadedIsSound
    <3> HIDE DEF loaded
    <3> QED
      BY <3>1
  <2> HIDE DEF loaded, key
  <2> QED
    BY <1>3, <1>4, <2>1, StartedIsSound
<1> HIDE DEF state, key
<1>6. at \in 1..Len(Order) /\ Order[at] = Sync
  BY <1>3, OrderFacts
<1> HIDE DEF at
<1>7. IsLocal(m) /\ m.mem = state /\ m.keys = key /\ m.at = at /\ m.handles = {}
  <2>1. IsLocal(Idle) /\ Idle.handles = {}
    BY DEF Idle, IsLocal
  <2>2. one = [mem |-> state, keys |-> Idle.keys, active |-> Idle.active, at |-> Idle.at,
               handles |-> Idle.handles, cut |-> Idle.cut]
    BY <2>1, LocalForms
  <2> HIDE DEF one
  <2>3. IsLocal(one) /\ one.mem = state /\ one.handles = {}
    BY <2>1, <2>2 DEF IsLocal
  <2>4. two = [mem |-> one.mem, keys |-> key, active |-> one.active, at |-> one.at,
               handles |-> one.handles, cut |-> one.cut]
    BY <2>3, LocalForms
  <2> HIDE DEF two
  <2>5. IsLocal(two) /\ two.mem = state /\ two.keys = key /\ two.handles = {}
    BY <2>3, <2>4 DEF IsLocal
  <2>6. m = [mem |-> two.mem, keys |-> two.keys, active |-> two.active, at |-> at,
             handles |-> two.handles, cut |-> two.cut]
    BY <2>5, LocalForms
  <2> HIDE DEF m
  <2> QED
    BY <2>5, <2>6 DEF IsLocal
<1> HIDE DEF m
<1>8. /\ pc'[r] = "solving" /\ run'[r] = m /\ DOMAIN run' = Runner
      /\ \A q \in Runner \ {r} : pc'[q] = pc[q] /\ run'[q] = run[q]
  BY <1>1, <1>2 DEF IsTyped
<1>9. IsTyped' /\ KeysAreWhole' /\ StateIsSound(file, changes, published)'
  <2>1. pc' \in [Runner -> Label]
    BY <1>1, <1>2 DEF IsTyped, Label
  <2> QED
    BY <1>1, <1>2, <1>5, <1>8, <2>1 DEF IsTyped, KeysAreWhole, storeVars
<1>10. RunIsSound(run[r], pc[r], file, changes, published)'
  <2>1. m.at \in 0..(Len(Order) + 1) /\ m.at # 0 /\ m.at <= Len(Order)
    BY <1>6, <1>7, OrderFacts
  <2>2. Order[m.at] = Sync
    BY <1>6, <1>7
  <2>3. RunIsSound(m, "solving", state, changes, published)
    BY <1>4, <1>5, <1>7, <2>1, <2>2 DEF RunIsSound, IsLocal
  <2> QED
    BY <1>1, <1>8, <2>3 DEF storeVars
<1>11. IInv'
  BY <1>1, <1>8, <1>9, <1>10, StepIsSound
<1> QED
  BY <1>1, <1>5, <1>11, SameRevisions DEF Kept

LEMMA ReviseSyncOffsetKeeps ==
    ASSUME IInv, ReviseSyncOffset
    PROVE  Kept
<1> DEFINE loaded == Loaded(FALSE)
           n == file.revisions + 1
           old == loaded.stages
           stages == [s \in Stage |-> IF s \in Timed THEN [old[s] EXCEPT !.status = "stale"]
                                      ELSE old[s]]
           state == Revised(loaded, n, stages)
<1>1. /\ runLock = None /\ Change /\ file' = state
      /\ UNCHANGED <<source, cancelFile, runLock, storeVars, pc, run, met, crashes>>
  BY DEF ReviseSyncOffset, Revised
<1>2. IsTyped /\ KeysAreWhole /\ StateIsSound(file, changes, published)
  BY DEF IInv
<1>3. /\ StateIsSound(loaded, changes, published) /\ Running(loaded) = {}
  BY <1>2, LoadedIsSound
<1>4. /\ changes \in Nat /\ changes' = changes + 1 /\ changes' \in 0..MaxChanges
      /\ changes <= changes' /\ source \in 0..changes'
  BY <1>1, <1>2, BoundAssumption DEF IsTyped, Change
<1>5. file.revisions \in 0..changes /\ n \in 0..changes' /\ n >= file.revisions
  <2>1. file.revisions \in 0..changes
    BY <1>2 DEF StateIsSound
  <2> QED
    BY <1>4, <2>1
<1> HIDE DEF loaded, n
<1>6. /\ stages = [s \in Stage |-> stages[s]]
      /\ \A s \in Stage : /\ RecordIsSound(stages[s], s, published)
                          /\ stages[s].status # "running"
  <2>1. stages = [s \in Stage |-> stages[s]]
    OBVIOUS
  <2>2. \A s \in Stage : stages[s] = IF s \in Timed THEN [old[s] EXCEPT !.status = "stale"]
                                     ELSE old[s]
    OBVIOUS
  <2>3. ASSUME NEW s \in Stage
        PROVE  RecordIsSound(stages[s], s, published) /\ stages[s].status # "running"
    <3>1. RecordIsSound(old[s], s, published) /\ old[s].status # "running"
      BY <1>3 DEF StateIsSound, Running
    <3> DEFINE new == stages[s]
               was == old[s]
    <3> HIDE DEF old
    <3>2. CASE s \in Timed
      <4>1. new = [was EXCEPT !.status = "stale"]
        BY <2>2, <3>2
      <4>2. PICK a, b, c : /\ was = [status |-> a, key |-> b, request |-> c]
                           /\ b = was.key /\ c = was.request
        BY <3>1 DEF RecordIsSound
      <4> HIDE DEF new, was
      <4>3. new = [status |-> "stale", key |-> b, request |-> c]
        BY <4>1, <4>2, RecordForms
      <4>4. /\ new.status = "stale" /\ new.key = was.key /\ new.request = was.request
            /\ new = [status |-> new.status, key |-> new.key, request |-> new.request]
        BY <4>2, <4>3
      <4>5. "stale" \in Status /\ "stale" # "complete" /\ "stale" # "running"
        BY DEF Status
      <4>6. RecordIsSound(was, s, published)
        BY <3>1 DEF was
      <4>7. RecordIsSound(new, s, published) /\ new.status # "running"
        BY <4>4, <4>5, <4>6 DEF RecordIsSound
      <4> QED
        BY <4>7 DEF new
    <3>3. CASE s \notin Timed
      <4>1. stages[s] = old[s]
        BY <2>2, <3>3
      <4> HIDE DEF stages
      <4> QED
        BY <3>1, <4>1
    <3> QED
      BY <3>2, <3>3
  <2> QED
    BY <2>1, <2>3
<1> HIDE DEF stages
<1>7. state = [settings |-> loaded.settings, generation |-> loaded.generation,
               revisions |-> n, manual |-> n, stages |-> stages]
  BY <1>3, <1>6, RevisedIs DEF StateIsSound
<1> HIDE DEF state
<1>8. StateIsSound(state, changes', published)
  <2>1. StateIsSound(loaded, changes', published)
    BY <1>3, <1>4, Grown
  <2>2. /\ loaded.settings \in Settings \cup {Unset}
        /\ loaded.generation \in [Stage -> 0..changes']
    BY <2>1 DEF StateIsSound
  <2> QED
    BY <1>5, <1>6, <1>7, <2>2, Made
<1>9. Running(state) = {} /\ state.revisions = n
  BY <1>6, <1>7 DEF Running
<1>10. IsTyped' /\ KeysAreWhole'
  BY <1>1, <1>2, <1>4 DEF IsTyped, KeysAreWhole, storeVars
<1>11. IInv'
  BY <1>1, <1>4, <1>8, <1>9, <1>10, EnvironmentKeeps DEF storeVars
<1> QED
  BY <1>1, <1>5, <1>9, <1>11 DEF Kept

\* A step that only moves locks, requests and probers.
LEMMA QuietKeeps ==
    ASSUME IInv, UNCHANGED <<file, pc, run, changes, crashes, foreign, published>>,
           cancelFile' \in BOOLEAN, source' = source,
           runLock' \in Runner \cup Prober \cup {None},
           runLock' = runLock \/ runLock \notin Runner,
           met' \in [Prober -> Runner \cup Prober \cup {None}]
    PROVE  Kept
<1>1. IsTyped /\ KeysAreWhole /\ StateIsSound(file, changes, published)
  BY DEF IInv
<1>2. IsTyped' /\ KeysAreWhole' /\ StateIsSound(file, changes, published)'
  BY <1>1 DEF IsTyped, KeysAreWhole
<1>3. changes <= changes'
  BY <1>1, BoundAssumption DEF IsTyped
<1>4. IInv'
  BY <1>2, <1>3, EnvironmentKeeps
<1> QED
  BY <1>4, SameRevisions DEF Kept

LEMMA CancelKeeps ==
    ASSUME IInv, Cancel
    PROVE  Kept
BY QuietKeeps DEF Cancel, IInv, IsTyped, storeVars

LEMMA ProbeKeeps ==
    ASSUME IInv, NEW p \in Prober, Probe(p)
    PROVE  Kept
<1>1. IsTyped
  BY DEF IInv
<1> DEFINE owner == IF runLock = None THEN p ELSE runLock
<1>2. /\ runLock' = owner /\ met' = [met EXCEPT ![p] = owner]
      /\ UNCHANGED <<file, source, cancelFile, storeVars, pc, run, changes, crashes>>
  BY DEF Probe
<1>3. owner \in Runner \cup Prober \cup {None}
  BY <1>1 DEF IsTyped
<1>4. owner = runLock \/ runLock \notin Runner
  BY NobodyAssumption
<1> HIDE DEF owner
<1>5. met' \in [Prober -> Runner \cup Prober \cup {None}] /\ cancelFile' \in BOOLEAN
  BY <1>1, <1>2, <1>3 DEF IsTyped
<1> QED
  BY <1>2, <1>3, <1>4, <1>5, QuietKeeps DEF storeVars

LEMMA AnswerKeeps ==
    ASSUME IInv, NEW p \in Prober, Answer(p)
    PROVE  Kept
<1>1. IsTyped
  BY DEF IInv
<1> DEFINE owner == IF runLock = p THEN None ELSE runLock
<1>2. /\ runLock' = owner /\ met' = [met EXCEPT ![p] = None]
      /\ UNCHANGED <<file, source, cancelFile, storeVars, pc, run, changes, crashes>>
  BY DEF Answer
<1>3. owner \in Runner \cup Prober \cup {None}
  BY <1>1 DEF IsTyped
<1>4. owner = runLock \/ runLock \notin Runner
  BY NobodyAssumption
<1> HIDE DEF owner
<1>5. met' \in [Prober -> Runner \cup Prober \cup {None}] /\ cancelFile' \in BOOLEAN
  BY <1>1, <1>2 DEF IsTyped
<1> QED
  BY <1>2, <1>3, <1>4, <1>5, QuietKeeps DEF storeVars

LEMMA EditSourceKeeps ==
    ASSUME IInv, EditSource
    PROVE  Kept
<1>1. /\ Change /\ source' = source + 1
      /\ UNCHANGED <<file, cancelFile, runLock, storeVars, pc, run, met, crashes>>
  BY DEF EditSource
<1>2. IsTyped /\ KeysAreWhole /\ StateIsSound(file, changes, published)
  BY DEF IInv
<1>3. /\ changes \in Nat /\ changes' \in Nat /\ changes' \in 0..MaxChanges
      /\ changes <= changes' /\ source' \in 0..changes'
  BY <1>1, <1>2, BoundAssumption DEF IsTyped, Change
<1>4. StateIsSound(file, changes', published)
  BY <1>2, <1>3, Grown
<1>5. IsTyped' /\ KeysAreWhole' /\ StateIsSound(file, changes, published)'
  BY <1>1, <1>2, <1>3, <1>4 DEF IsTyped, KeysAreWhole, storeVars
<1>6. IInv'
  BY <1>1, <1>3, <1>5, EnvironmentKeeps DEF storeVars
<1> QED
  BY <1>1, <1>6, SameRevisions DEF Kept

\* A writer elsewhere takes a key, publishes it or gives it up.
LEMMA ElsewhereKeeps ==
    ASSUME IInv, published \subseteq published', KeysAreWhole',
           UNCHANGED <<file, source, cancelFile, runLock, pc, run, met, changes, crashes>>
    PROVE  Kept
<1>1. IsTyped /\ changes <= changes'
  BY BoundAssumption DEF IInv, IsTyped
<1>2. IsTyped'
  BY <1>1 DEF IsTyped
<1>3. StateIsSound(file, changes, published)'
  BY PublishedGrows
<1>4. IInv'
  BY <1>1, <1>2, <1>3, EnvironmentKeeps
<1> QED
  BY <1>4, SameRevisions DEF Kept

LEMMA ForeignBeginKeeps ==
    ASSUME IInv, NEW r \in Runner, ForeignBegin(r)
    PROVE  Kept
<1>1. /\ pc[r] \notin {"idle", "stage"} /\ published' = published
      /\ foreign' = foreign \cup {CurKey(r)}
      /\ UNCHANGED <<file, source, cancelFile, runLock, pc, run, met, changes, crashes>>
  BY DEF ForeignBegin
<1>2. KeysAreWhole'
  BY <1>1, CurKeyIsWhole DEF IInv, KeysAreWhole
<1> QED
  BY <1>1, <1>2, ElsewhereKeeps

LEMMA ForeignEndKeeps ==
    ASSUME IInv, NEW k \in foreign, ForeignEnd(k)
    PROVE  Kept
<1>1. /\ published' = published \/ published' = published \cup {k}
      /\ foreign' = foreign \ {k}
      /\ UNCHANGED <<file, source, cancelFile, runLock, pc, run, met, changes, crashes>>
  BY DEF ForeignEnd
<1>2. KeysAreWhole'
  BY <1>1 DEF IInv, KeysAreWhole
<1>3. published \subseteq published'
  BY <1>1
<1> QED
  BY <1>1, <1>2, <1>3, ElsewhereKeeps

\* The steps of a run.
LEMMA RunStepKeeps ==
    ASSUME IInv, NEW r \in Runner, RunStep(r)
    PROVE  Kept
BY SkipKeeps, LackInputsKeeps, StopBeforeStageKeeps, ReuseKeeps, FindCorruptKeeps,
   StartStageKeeps, GiveUpWaitingKeeps, TimeOutKeeps, AdoptKeeps, CallProducerKeeps,
   StopProducingKeeps, PublishKeeps, ProducerRaisesKeeps, CompleteKeeps, ReturnKeeps,
   SolveFailsKeeps, SolvePublishesKeeps, SolveReturnsKeeps
   DEF RunStep

\* Every step.
LEMMA NextKeeps ==
    ASSUME IInv, [Next]_vars
    PROVE  Kept
<1>1. ASSUME NEW r \in Runner, Call(r) PROVE Kept
  BY <1>1, BeginKeeps, SolveBeginKeeps DEF Call
<1>2. ASSUME NEW r \in Runner, RunStep(r) PROVE Kept
  BY <1>2, RunStepKeeps
<1>3. ASSUME NEW r \in Runner, Crash(r) \/ ForeignBegin(r) PROVE Kept
  BY <1>3, CrashKeeps, ForeignBeginKeeps
<1>4. ASSUME NEW p \in Prober, Probe(p) \/ Answer(p) PROVE Kept
  BY <1>4, ProbeKeeps, AnswerKeeps
<1>5. ASSUME NEW k \in foreign, ForeignEnd(k) PROVE Kept
  BY <1>5, ForeignEndKeeps
<1>6. CASE Cancel \/ ReviseSyncOffset \/ EditSource
  BY <1>6, CancelKeeps, ReviseSyncOffsetKeeps, EditSourceKeeps
<1>7. CASE UNCHANGED vars
  <2>1. IInv'
    BY <1>7 DEF vars, storeVars, IInv, IsTyped, KeysAreWhole
  <2> QED
    BY <1>7, <2>1, SameRevisions DEF Kept, vars
<1> QED
  BY <1>1, <1>2, <1>3, <1>4, <1>5, <1>6, <1>7 DEF Next

\* A new project.
LEMMA InitIsSound ==
    ASSUME Init
    PROVE  IInv
<1>1. StateIsSound(Initial, 0, {}) /\ Running(Initial) = {}
  <2> DEFINE stages == [s \in Stage |-> NotRun]
  <2>1. /\ NotRun = [status |-> NotRun.status, key |-> NotRun.key,
                     request |-> NotRun.request]
        /\ NotRun.status = "not-run" /\ NotRun.key = None /\ NotRun.request = None
    BY DEF NotRun
  <2>2. "not-run" \in Status /\ "not-run" # "complete" /\ "not-run" # "running"
    BY DEF Status
  <2>3. \A s \in Stage : RecordIsSound(NotRun, s, {})
    BY <2>1, <2>2 DEF RecordIsSound
  <2>4. \A s \in Stage : stages[s] = NotRun
    OBVIOUS
  <2>5. Initial = [settings |-> Unset, generation |-> Unset, revisions |-> 0, manual |-> 0,
                   stages |-> stages]
    BY DEF Initial
  <2>6. Unset \in [Stage -> 0..0] /\ Unset \in Settings \cup {Unset} /\ 0 \in 0..0
    BY DEF Unset
  <2>7. stages = [s \in Stage |-> stages[s]]
    OBVIOUS
  <2> HIDE DEF stages
  <2>8. StateIsSound(Initial, 0, {})
    BY <2>3, <2>4, <2>5, <2>6, <2>7, Made
  <2>9. Initial.stages = stages
    BY <2>5
  <2> QED
    BY <2>1, <2>2, <2>4, <2>8, <2>9 DEF Running
<1>2. IsTyped /\ KeysAreWhole
  <2>1. KeysAreWhole
    BY DEF Init, KeysAreWhole
  <2>2. 0 \in 0..MaxChanges /\ 0 \in 0..0 /\ 0 \in 0..MaxCrashes
    BY BoundAssumption
  <2>3. /\ pc \in [Runner -> Label] /\ DOMAIN run = Runner
        /\ met \in [Prober -> Runner \cup Prober \cup {None}]
    BY DEF Init, Label
  <2>4. /\ changes = 0 /\ source = 0 /\ crashes = 0 /\ cancelFile = FALSE
        /\ runLock = None
    BY DEF Init
  <2>5. IsTyped
    BY <2>2, <2>3, <2>4 DEF IsTyped
  <2> QED
    BY <2>1, <2>5
<1>3. \A r \in Runner : pc[r] = "idle" /\ run[r] = Idle
  BY DEF Init
<1>4. \A r \in Runner : RunIsSound(run[r], pc[r], file, changes, published)
  BY <1>3, IdleIsSound
<1>5. file = Initial /\ changes = 0 /\ published = {}
  BY DEF Init
<1> QED
  BY <1>1, <1>2, <1>3, <1>4, <1>5 DEF IInv

\* For any graph of stages, runners, probers and bounds: state.json, the local
\* variables of the one run that has run.lock, the store and the keys that
\* writers elsewhere work on agree after every step of runner.py.
THEOREM InductiveInvariant == Spec => []IInv
<1>1. Init => IInv
  BY InitIsSound
<1>2. IInv /\ [Next]_vars => IInv'
  BY NextKeeps DEF Kept
<1> QED
  BY <1>1, <1>2, PTL DEF Spec

\* Every variable keeps its type.
THEOREM TypeCorrect == Spec => []TypeOK
<1>1. IInv => TypeOK
  <2> SUFFICES ASSUME IInv PROVE TypeOK
    OBVIOUS
  <2>1. IsTyped /\ KeysAreWhole /\ StateIsSound(file, changes, published)
    BY DEF IInv
  <2>2. /\ 0..changes \subseteq 0..MaxChanges
        /\ changes \in 0..MaxChanges /\ source \in 0..MaxChanges
        /\ crashes \in 0..MaxCrashes
    BY <2>1, BoundAssumption DEF IsTyped
  <2>3. /\ file.generation \in [Stage -> 0..MaxChanges]
        /\ file.revisions \in 0..MaxChanges /\ file.manual \in 0..MaxChanges
        /\ file.settings \in Settings \cup {Unset}
    <3>1. /\ file.generation \in [Stage -> 0..changes] /\ file.revisions \in 0..changes
          /\ file.manual = file.revisions /\ file.settings \in Settings \cup {Unset}
      BY <2>1 DEF StateIsSound
    <3> QED
      BY <2>2, <3>1
  <2>4. \A s \in Stage : /\ file.stages[s].status \in Status
                         /\ \A k \in {file.stages[s].key, file.stages[s].request} :
                                k = None \/ k.stage = s
    <3> TAKE s \in Stage
    <3>1. RecordIsSound(file.stages[s], s, published)
      BY <2>1 DEF StateIsSound
    <3> QED
      BY <3>1 DEF RecordIsSound
  <2>5. published \cup foreign = UNION {KeyOf(s) : s \in Stage}
    BY <2>1 DEF KeysAreWhole, KeyOf
  <2>6. \A r \in Runner : run[r].at \in 0..(Len(Order) + 1) /\ run[r].handles \subseteq Stage
    BY DEF IInv, RunIsSound
  <2> QED
    BY <2>1, <2>2, <2>3, <2>4, <2>5, <2>6 DEF TypeOK, IsTyped, Label
<1> QED
  BY <1>1, InductiveInvariant, PTL

\* PublishedBeforeUse for any graph: _write_json never says "complete" of a key
\* without an artifact, and no artifact is made from anything unpublished.
THEOREM CompleteHasItsArtifact == Spec => []PublishedBeforeUse
<1>1. IInv => PublishedBeforeUse
  BY DEF IInv, PublishedBeforeUse, StateIsSound, RecordIsSound, KeysAreWhole
<1> QED
  BY <1>1, InductiveInvariant, PTL

\* RunningIsAccountedFor: "running" in state.json is the stage that the owner of
\* run.lock is at, or what a process left that has died.
THEOREM RunningHasARun == Spec => []RunningIsAccountedFor
<1>1. IInv => RunningIsAccountedFor
  <2> SUFFICES ASSUME IInv, NEW s \in Stage, file.stages[s].status = "running"
               PROVE  \/ crashes > 0 /\ \A r \in Runner : pc[r] = "idle"
                      \/ \E r \in Runner : /\ pc[r] \in {"creating", "producing", "published",
                                                         "solving", "solved"}
                                           /\ runLock = r /\ s = Cur(r)
    BY DEF RunningIsAccountedFor
  <2>1. s \in Running(file)
    BY DEF Running
  <2>2. CASE \A r \in Runner : pc[r] = "idle"
    BY <2>1, <2>2 DEF IInv
  <2>3. CASE \E r \in Runner : pc[r] # "idle"
    <3>1. PICK r \in Runner : pc[r] # "idle"
      BY <2>3
    <3>2. runLock = r /\ RunIsSound(run[r], pc[r], file, changes, published)
      BY <3>1, OthersAreIdle
    <3>3. pc[r] # "stage"
      BY <2>1, <3>2 DEF RunIsSound
    <3>4. s = Cur(r)
      BY <2>1, <3>1, <3>2, <3>3 DEF RunIsSound, Cur
    <3>5. pc[r] \in Label
      BY DEF IInv, IsTyped
    <3> QED
      BY <3>1, <3>2, <3>3, <3>4, <3>5 DEF Label
  <2> QED
    BY <2>2, <2>3
<1> QED
  BY <1>1, InductiveInvariant, PTL

\* No step of analyze, solve_sync or revise_sync_offset loses an offset.
THEOREM RevisionsAreKept == Spec => NoRevisionLost
<1>1. IInv /\ [Next]_vars =>
        [file'.revisions >= file.revisions /\ file'.manual = file'.revisions]_vars
  <2> SUFFICES ASSUME IInv, [Next]_vars
               PROVE  file'.revisions >= file.revisions /\ file'.manual = file'.revisions
    OBVIOUS
  <2>1. IInv' /\ file'.revisions >= file.revisions
    BY NextKeeps DEF Kept
  <2>2. StateIsSound(file', changes', published')
    BY <2>1 DEF IInv
  <2> QED
    BY <2>1, <2>2 DEF StateIsSound
<1> QED
  BY <1>1, InductiveInvariant, PTL DEF Spec, NoRevisionLost

\* What status calls complete is there under the keys of the moment (_load_status
\* marks every other record as stale), provided None, which stands for no key,
\* is not taken for the key of a stage.
THEOREM AnswersAreTrue ==
    ASSUME None.stage \notin Stage
    PROVE  Spec => AnsweredCompleteIsReady
<1> DEFINE ToldRight(p) == \A s \in Stage :
                Told(p)[s] = "complete" => Keys(file, source)[s] \in published
<1>1. ASSUME IInv, NEW p \in Prober PROVE ToldRight(p)
  <2> DEFINE active == met[p] # p
             key == Keys(file, source)
             seen == Seen(file, key, active)
  <2>1. StateIsSound(file, changes, published) /\ KeysAreWhole
    BY <1>1 DEF IInv
  <2>2. active \in BOOLEAN
    OBVIOUS
  <2>3. None \notin published
    BY <2>1 DEF KeysAreWhole
  <2>4. /\ Loaded(active) = [settings |-> file.settings, generation |-> file.generation,
                revisions |-> file.revisions, manual |-> file.manual, stages |-> seen]
        /\ \A s \in Stage : /\ RecordIsSound(seen[s], s, published)
                            /\ seen[s].status = "complete" =>
                                seen[s].key = None \/ seen[s].key = key[s]
    <3> HIDE DEF active
    <3> QED
      BY <2>1, <2>2, LoadedIsSound, SeenIsSound
  <2>5. \A s \in Stage : Told(p)[s] = seen[s].status
    <3>1. Told(p) = [s \in Stage |-> Loaded(active).stages[s].status]
      BY DEF Told
    <3> HIDE DEF active, seen
    <3>2. Loaded(active).stages = seen
      BY <2>4
    <3> QED
      BY <3>1, <3>2
  <2> HIDE DEF seen, key, active
  <2>6. \A s \in Stage : Told(p)[s] = "complete" => key[s] \in published
    BY <2>3, <2>4, <2>5 DEF RecordIsSound
  <2> QED
    BY <2>6 DEF key
<1>2. IInv => [\A p \in Prober : met[p] # None /\ met'[p] = None =>
                \A s \in Stage :
                    Told(p)[s] = "complete" => Keys(file, source)[s] \in published]_vars
  BY <1>1
<1> QED
  BY <1>2, InductiveInvariant, PTL DEF AnsweredCompleteIsReady
=============================================================================
