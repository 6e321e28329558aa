------------------------- MODULE RedactionCollector -------------------------
(***************************************************************************)
(* _Collector: the output of a command arrives in chunks and leaves as a   *)
(* bounded excerpt in which no protected value shows.  A value can begin   *)
(* in one chunk and end in another, overlap itself or another value, and   *)
(* be cut by the limit.                                                    *)
(*                                                                         *)
(* Symbols stand for bytes.  A match is an interval of offsets, from 0:    *)
(* it covers the positions start + 1 .. end of the sequence it is in.      *)
(***************************************************************************)
EXTENDS Naturals, SequencesExt, FiniteSetsExt

CONSTANTS
    Symbols,     \* what a command writes
    Marker,      \* what stands for a protected value
    PatternSets, \* the sets of protected values explored
    Limits,      \* the limits of an excerpt explored
    MaxPatterns, \* more values than this suppress the excerpt
    MaxPattern,  \* a longer value than this suppresses the excerpt
    MaxChunk,    \* bound: symbols that arrive at a time
    MaxOutput    \* bound: symbols a command writes

ASSUME CollectorConstants ==
    /\ Marker \in Seq(Range(Marker)) \ {<<>>}
    /\ \A ps \in PatternSets :
         IsFiniteSet(ps) /\ \A p \in ps : p \in Seq(Range(p)) \ {<<>>}
    /\ Limits \subseteq Nat \ {0}
    /\ {MaxPatterns, MaxPattern, MaxChunk, MaxOutput} \subseteq Nat

VARIABLES
    patterns,  \* the protected values
    limit,     \* the limit of the excerpt
    pending,   \* what has arrived and is held back
    excerpt,   \* what is shown
    truncated, \* something did not fit
    redacted,  \* something was replaced
    finished,  \* finish() returned
    output     \* everything that has arrived (the digest and the total)

vars == <<patterns, limit, pending, excerpt, truncated, redacted, finished, output>>

Strings == BoundedSeq(Symbols, MaxOutput)

TypeOK ==
    /\ patterns \in PatternSets /\ limit \in Limits
    /\ output \in Strings /\ pending \in Strings
    /\ IsSuffix(pending, output)
    /\ \A i \in DOMAIN excerpt : excerpt[i] \in Symbols \cup Range(Marker)
    /\ Len(excerpt) <= limit
    /\ {truncated, redacted, finished} \subseteq BOOLEAN

-----------------------------------------------------------------------------
(* Values and where they occur.                                            *)

Longest == Max({0} \cup {Len(p) : p \in patterns})

IsWithin(whole, part) == part \in SubSeqs(whole)

\* Mutant of Overlaps: a value may end or begin inside the marker.
OverlapsWhole(a, b) == IsWithin(a, b) \/ IsWithin(b, a)

\* Equal, nested, or the end of one is the beginning of the other.
Overlaps(a, b) ==
    \/ IsWithin(a, b) \/ IsWithin(b, a)
    \/ \E e \in Suffixes(a) \cap Prefixes(b) : e # <<>>
    \/ \E e \in Suffixes(b) \cap Prefixes(a) : e # <<>>

\* Nothing is shown at all where redaction could not be trusted.
Suppressed ==
    \/ Cardinality(patterns) > MaxPatterns
    \/ \E p \in patterns : Len(p) > MaxPattern \/ Overlaps(Marker, p)

OccursAt(p, data, offset) ==
    offset + Len(p) <= Len(data) /\ SubSeq(data, offset + 1, offset + Len(p)) = p

\* The alternation tries the longest value first, at every offset.
Matches(data) ==
    { [start |-> o, end |-> o + Max({Len(p) : p \in {q \in patterns : OccursAt(q, data, o)}})] :
        o \in {n \in 0 .. Len(data) : \E p \in patterns : OccursAt(p, data, n)} }

-----------------------------------------------------------------------------
(* Draining what is pending.                                               *)

\* _redact_prefix: each run of overlapping matches becomes one marker.
RedactPrefix(data, boundary) ==
    LET whole   == {m \in Matches(data) : m.end <= boundary}
        Here(i) == {m \in whole : m.start = i - 1}
        Begin   == [text |-> <<>>, cursor |-> 0, replaced |-> FALSE]
        Step(acc, i) ==
            [ text |-> acc.text \o (IF i - 1 < acc.cursor THEN <<>>
                                    ELSE IF Here(i) # {} THEN Marker ELSE <<data[i]>>),
              cursor |-> Max({m.end : m \in Here(i)} \cup {acc.cursor}),
              replaced |-> acc.replaced \/ Here(i) # {} ]
        run[i \in 0 .. boundary] == IF i = 0 THEN Begin ELSE Step(run[i - 1], i)
    IN  run[boundary]

\* Mutant of Settle: a value that reaches over the boundary is cut there.
SettleAnywhere(data, boundary) == boundary

\* The last boundary that no match reaches over.
Settle(data, boundary) ==
    Max({ b \in 0 .. boundary :
            \A m \in Matches(data) : ~(m.start < b /\ m.end > b) })

\* Mutant of StreamingBoundary: twice the tail is retained.
StreamingBoundaryTwice(data) == Max({0, Len(data) - 2 * Longest - 1})

\* While output arrives, a value may still be incomplete at the end.
StreamingBoundary(data) == Max({0, Len(data) - Longest - 1})

\* At the end, the beginning of a value is held back as if it were whole.
FinalBoundary(data) ==
    Min({Len(data)} \cup
        { Len(data) - Len(e) :
            e \in {f \in Suffixes(data) \ {<<>>} : \E p \in patterns : IsStrictPrefix(f, p)} })

\* _append: only what fits is shown.
Show(value) ==
    /\ excerpt' = SubSeq(excerpt \o value, 1, Min({limit, Len(excerpt) + Len(value)}))
    /\ truncated' = (truncated \/ Len(excerpt) + Len(value) > limit)

-----------------------------------------------------------------------------
(* The operations.                                                         *)

Init ==
    /\ patterns \in PatternSets
    /\ limit \in Limits
    /\ pending = <<>>
    /\ excerpt = <<>>
    /\ truncated = FALSE
    /\ redacted = FALSE
    /\ finished = FALSE
    /\ output = <<>>

Arrive(chunk) ==
    /\ ~finished
    /\ Len(output) + Len(chunk) <= MaxOutput
    /\ output' = output \o chunk
    /\ UNCHANGED <<patterns, limit, finished>>

FeedSuppressed(chunk) ==
    /\ Suppressed
    /\ Arrive(chunk)
    /\ truncated' = TRUE
    /\ redacted' = TRUE
    /\ UNCHANGED <<pending, excerpt>>

FeedPlain(chunk) ==
    /\ patterns = {}
    /\ Arrive(chunk)
    /\ Show(chunk)
    /\ UNCHANGED <<pending, redacted>>

FeedRedacting(chunk) ==
    /\ ~Suppressed /\ patterns # {}
    /\ Arrive(chunk)
    /\ LET data     == pending \o chunk
           boundary == Settle(data, StreamingBoundary(data))
           shown    == RedactPrefix(data, boundary)
       IN  /\ Show(shown.text)
           /\ redacted' = (redacted \/ shown.replaced)
           /\ pending' = SubSeq(data, boundary + 1, Len(data))

\* finish(): what is left over after the last boundary becomes one marker.
Finish ==
    /\ ~finished
    /\ finished' = TRUE
    /\ pending' = <<>>
    /\ IF Suppressed \/ patterns = {}
       THEN UNCHANGED <<excerpt, truncated, redacted>>
       ELSE LET boundary == Settle(pending, FinalBoundary(pending))
                shown    == RedactPrefix(pending, boundary)
                rest     == boundary < Len(pending)
            IN  /\ Show(shown.text \o (IF rest THEN Marker ELSE <<>>))
                /\ redacted' = (redacted \/ shown.replaced \/ rest)
    /\ UNCHANGED <<patterns, limit, output>>

Chunks == BoundedSeq(Symbols, MaxChunk) \ {<<>>}

Next ==
    \/ \E chunk \in Chunks : FeedSuppressed(chunk) \/ FeedPlain(chunk) \/ FeedRedacting(chunk)
    \/ Finish

Spec == Init /\ [][Next]_vars

-----------------------------------------------------------------------------
(* A reference definition, over the whole output at once.                  *)

\* A position that an occurrence of some value covers.
Covered(i) ==
    \E p \in patterns, o \in 0 .. Len(output) :
      OccursAt(p, output, o) /\ i \in o + 1 .. o + Len(p)

\* An occurrence begins here and no earlier one reaches over this place.
Opens(i) ==
    /\ \E p \in patterns : OccursAt(p, output, i - 1)
    /\ ~ \E p \in patterns, o \in 0 .. i - 2 :
           OccursAt(p, output, o) /\ o + Len(p) >= i

\* Where the output may have ended inside a value; an occurrence that overlaps
\* this end belongs to it.
Unfinished ==
    { i \in 1 .. Len(output) :
        \E p \in patterns : IsStrictPrefix(SubSeq(output, i, Len(output)), p) }

TailStart ==
    IF Unfinished = {} THEN Len(output) + 1
    ELSE LET first == Min(Unfinished)
         IN  IF Covered(first) /\ ~Opens(first)
             THEN Max({i \in 1 .. first : Opens(i)}) ELSE first

Redaction ==
    LET At(i) == IF i = TailStart THEN Marker
                 ELSE IF i > TailStart THEN <<>>
                 ELSE IF Opens(i) THEN Marker
                 ELSE IF Covered(i) THEN <<>> ELSE <<output[i]>>
    IN  FlattenSeq([i \in 1 .. Len(output) |-> At(i)])

-----------------------------------------------------------------------------
(* What an excerpt promises.                                               *)

\* docs/04_security_and_trust.md: no protected value is in an excerpt, at any time,
\* wherever chunks and the limit cut it and whatever the markers put together.
ProtectedValuesNeverShow ==
    \A p \in patterns : ~IsWithin(excerpt, p)

\* The result depends on what was written and not on how it arrived: it is the
\* redaction of the whole output, cut at the limit, and its flags say exactly
\* whether something was replaced or did not fit.
ChunksDoNotMatter ==
    finished /\ ~Suppressed =>
      /\ excerpt = SubSeq(Redaction, 1, Min({limit, Len(Redaction)}))
      /\ truncated <=> Len(Redaction) > limit
      /\ redacted <=> \E i \in 1 .. Len(output) : Covered(i) \/ i >= TailStart

\* Text is only held back where a value may still be incomplete: a tail of
\* one value's length, and before it a run of overlapping values.
NothingWithheldNeedlessly ==
    \A b \in 1 .. Len(pending) - Longest - 1 :
      \E m \in Matches(pending) : m.start < b /\ m.end > b

=============================================================================
