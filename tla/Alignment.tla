----------------------------- MODULE Alignment -----------------------------
(***************************************************************************)
(* sync/alignment.py: what a camera's native frames say of an instant of   *)
(* the common clock, and over which spans they say anything.               *)
(*                                                                         *)
(* A frame is its time, its subject (a track, "any" when the artifact has  *)
(* no selection, "rejected"), the channels in which one landmark passes    *)
(* its quality and its region's mask, and the provider of the geometry     *)
(* this landmark supports.  A camera is its frames, their offset and the   *)
(* join's settings.  Times are integers, native ones even, so that the     *)
(* middle of two of them is one too; the exact tolerance, a rounding       *)
(* allowance, is 0; coordinates and scores are left out.                   *)
(***************************************************************************)
EXTENDS Integers, Sequences, FiniteSets, FiniteSetsExt

\* Two frames at one time are refused; the rest is sorted.
Joinable(frames) == \A f, g \in frames : f.at = g.at => f = g

Earlier(frames, f) == {g \in frames : g.at < f.at}

Stream(frames) ==
    [n \in 1..Cardinality(frames) |->
        CHOOSE f \in frames : Cardinality(Earlier(frames, f)) = n - 1]

Usable(frame, channel) == frame.subject # "rejected" /\ channel \in frame.sees

SameTrack(f, g) == f.subject = g.subject /\ f.subject \notin {"any", "rejected"}

\* The nth smallest of a sequence.
Smallest(s, n) ==
    CHOOSE x \in {s[i] : i \in DOMAIN s} :
        /\ Cardinality({i \in DOMAIN s : s[i] < x}) < n
        /\ n <= Cardinality({i \in DOMAIN s : s[i] <= x})

\* Twice the median.
Median2(s) == Smallest(s, (Len(s) + 1) \div 2) + Smallest(s, Len(s) \div 2 + 1)

\* _limits: the gap after frame i is longer than its neighbours allow.
LongGap(stream, config, i) ==
    LET delta == [n \in 1..(Len(stream) - 1) |-> stream[n + 1].at - stream[n].at]
        near == SubSeq(delta, Max({1, i - config.radius}), i - 1)
                \o SubSeq(delta, i + 1, Min({Len(delta), i + config.radius}))
    IN  \/ 2 * delta[i] > config.factor * (IF near = <<>> THEN 2 * delta[i] ELSE Median2(near))
        \/ delta[i] > config.longest

\* _camera: the frames that an instant rests on, none, one or two, and
\* whether they may be used.
Camera(join, t) ==
    LET stream == Stream(join.frames)
        native == t - join.offset.shift
        before == {i \in DOMAIN stream : stream[i].at <= native}
        last == Max(before)
        found ==
            IF ~join.offset.retained \/ before = {} THEN <<>>
            ELSE IF stream[last].at = native THEN <<stream[last]>>
            ELSE IF last = Len(stream) THEN <<>>
            ELSE <<stream[last], stream[last + 1]>>
    IN  [endpoints |-> found,
         valid |->
            /\ Len(found) = 2 =>
                ~LongGap(stream, join.config, last) /\ SameTrack(found[1], found[2])
            /\ native \in join.offset.from .. join.offset.to]

\* Mutant: what a provider saw stands, whatever the canonical masks say.
OwnChannel(camera, channel) ==
    /\ camera.endpoints # <<>>
    /\ camera.valid
    /\ \A i \in DOMAIN camera.endpoints : Usable(camera.endpoints[i], channel)

\* _channels: a provider's own channel cannot undo the canonical mask.
HasPoint(camera, channel) ==
    /\ camera.endpoints # <<>>
    /\ camera.valid
    /\ \A i \in DOMAIN camera.endpoints :
        Usable(camera.endpoints[i], channel) /\ Usable(camera.endpoints[i], "landmarks")

\* _geometry, for the part whose geometry rests on the landmark.
Geometry(camera) ==
    LET providers == {camera.endpoints[i].provider : i \in DOMAIN camera.endpoints} IN
    IF providers \subseteq {"none"} THEN "none"
    ELSE IF HasPoint(camera, "landmarks") /\ Cardinality(providers) = 1
    THEN IF Len(camera.endpoints) = 1 THEN "as seen" ELSE "between"
    ELSE "missing"

Clipped(start, end, offset) ==
    [start |-> Max({start, offset.from + offset.shift}),
     end |-> Min({end, offset.to + offset.shift})]

\* coverage: every frame and every gap, clipped, by what its middle shows.
Spans(join, channel) ==
    LET stream == Stream(join.frames)
        at(i) == stream[i].at + join.offset.shift
        candidates ==
            {Clipped(at(i), at(i), join.offset) : i \in DOMAIN stream}
            \cup {Clipped(at(i), at(i + 1), join.offset) : i \in 1..(Len(stream) - 1)}
    IN  {span \in candidates :
            /\ span.start <= span.end
            /\ HasPoint(Camera(join, (span.start + span.end) \div 2), channel)}

\* merge: a span that nothing earlier reaches begins a stretch, up to the next one.
Merge(spans) ==
    LET starts == {s.start : s \in {x \in spans :
                        \A y \in spans : y.start < x.start => y.end < x.start}}
        from(a) == {x \in spans : a <= x.start /\ \A b \in starts : a < b => x.start < b}
    IN  {[start |-> a, end |-> Max({x.end : x \in from(a)})] : a \in starts}

Coverage(join) == Merge(Spans(join, "landmarks"))

-----------------------------------------------------------------------------
(* Properties.                                                             *)

\* The coverage that is published with the queries promises what a query
\* then finds, at every instant and not only in the middles it was computed
\* from, in spans apart from each other; outside of them a query shows no
\* point in any channel and no geometry either.
CoversWhatItFinds(join, instants, channels) ==
    LET coverage == Coverage(join) IN
    /\ \A t \in instants :
        LET camera == Camera(join, t)
            covered == \E span \in coverage : t \in span.start .. span.end
        IN
        /\ covered <=> HasPoint(camera, "landmarks")
        /\ (\E channel \in channels : HasPoint(camera, channel)) => covered
        /\ Geometry(camera) \in {"as seen", "between"} => covered
    /\ \A x, y \in coverage : x = y \/ x.end < y.start \/ y.end < x.start

=============================================================================
