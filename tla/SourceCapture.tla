--------------------------- MODULE SourceCapture ---------------------------
(***************************************************************************)
(* capture_changeset over a repository its author keeps editing.  An       *)
(* attempt (_capture_once, pending scope) is a fixed order of phases, each *)
(* reading some components of the repository one at a time.  The working   *)
(* tree is scanned twice and the Git metadata fingerprinted three times;   *)
(* the attempt counts only if nothing differs, and is repeated once.       *)
(*                                                                         *)
(* What is read of a component is a version of it.  The commit trees never *)
(* change under a resolved commit, so they need no step of their own.  The *)
(* index is read for its entries and for the staged diff; both lie between *)
(* the same fingerprints and are one read here.                            *)
(***************************************************************************)
EXTENDS Naturals, FiniteSets

CONSTANTS
    Tracked,   \* paths the index lists
    Untracked, \* paths git ls-files --others lists while they exist
    Ignored,   \* changed paths neither lists: out of the index and ignored
    Nested,    \* paths below a directory, which may be missing when they are
    Versions,  \* what a component can hold
    Absent,    \* a path's version while it does not exist
    Unread,    \* a slot nothing has been read into
    Initial,   \* the repositories a capture may find
    EditSets,  \* the sets of components one edit may touch
    MaxEdits   \* bound: edits the author makes

Scanned == Tracked \cup Untracked
Paths == Scanned \cup Ignored

\* HEAD, and the index and configuration files.
HEAD == <<"git", "head">>
Index == <<"git", "index">>
Metadata == {HEAD, Index}
Content(p) == <<p, "content">>
Mode(p) == <<p, "mode">>
PathParts(ps) == {Content(p) : p \in ps} \cup {Mode(p) : p \in ps}
ScannedParts == PathParts(Scanned)
Components == Metadata \cup PathParts(Paths)

ASSUME CaptureConstants ==
    /\ IsFiniteSet(Paths)
    /\ "git" \notin Paths
    /\ Tracked \cap Untracked = {} /\ Scanned \cap Ignored = {}
    /\ Nested \subseteq Paths
    /\ Unread \notin Versions \cup {Absent}
    /\ EditSets \subseteq SUBSET Components
    /\ MaxEdits \in Nat

Values == Versions \cup {Absent}

\* A path is there with its content and mode, or not at all.
Repository ==
    { r \in [Components -> Values] :
        /\ \A c \in Metadata : r[c] # Absent
        /\ \A p \in Paths : r[Content(p)] = Absent <=> r[Mode(p)] = Absent }

ASSUME InitialRepositories == Initial \subseteq Repository

-----------------------------------------------------------------------------
(* The phases of an attempt.                                               *)

Phases == {"head", "before", "collect", "scan", "ignored", "after", "rescan", "final"}

Rank == [ph \in Phases |->
    CASE ph = "head" -> 0 [] ph = "before" -> 1 [] ph = "collect" -> 2
      [] ph = "scan" -> 3 [] ph = "ignored" -> 4 [] ph = "after" -> 5
      [] ph = "rescan" -> 6 [] ph = "final" -> 7]

\* What each phase reads.
Items == [ph \in Phases |->
    CASE ph = "head" -> {HEAD}
      [] ph \in {"before", "after", "final"} -> Metadata
      [] ph = "collect" -> {Index}
      [] ph \in {"scan", "rescan"} -> ScannedParts
      [] ph = "ignored" -> PathParts(Ignored)]

VARIABLES
    repo,    \* the author's repository
    past,    \* history: the versions each component has had
    moments, \* history: the states the repository was in during the attempt
    edits,   \* history: edits so far
    attempt, \* 0 or 1
    read,    \* what each phase of the attempt has read
    listed,  \* the untracked paths each scan has listed
    outcome, \* "running", "captured", "unstable" or "error"
    captured \* the data of the ChangeSet, Unread where there is none

capture == <<attempt, read, listed, outcome, captured>>
captureVars == <<repo, past, moments, edits, capture>>

NothingRead == [ph \in Phases |-> [c \in Components |-> Unread]]
NothingListed == [ph \in {"scan", "rescan"} |-> {}]

CaptureTypeOK ==
    /\ repo \in Repository
    /\ past \in [Components -> SUBSET Values]
    /\ moments \subseteq Repository
    /\ edits \in 0 .. MaxEdits
    /\ attempt \in 0 .. 1
    /\ read \in [Phases -> [Components -> Values \cup {Unread}]]
    /\ listed \in [{"scan", "rescan"} -> SUBSET Untracked]
    /\ outcome \in {"running", "captured", "unstable", "error"}
    /\ captured \in [Components -> Values \cup {Unread}]

CaptureInit ==
    /\ repo \in Initial
    /\ past = [c \in Components |-> {repo[c]}]
    /\ moments = {repo}
    /\ edits = 0
    /\ attempt = 0
    /\ read = NothingRead
    /\ listed = NothingListed
    /\ outcome = "running"
    /\ captured = [c \in Components |-> Unread]

-----------------------------------------------------------------------------
(* The author.                                                             *)

\* One edit, commit or checkout; a component never returns to a version it has
\* had: two equal scans cannot see what was changed and changed back between.
Edit(cs) ==
    /\ outcome = "running"
    /\ edits < MaxEdits
    /\ \E new \in [cs -> Values] :
         /\ repo' = [c \in Components |-> IF c \in cs THEN new[c] ELSE repo[c]]
         /\ \A c \in cs : new[c] \notin past[c]
    /\ repo' \in Repository
    /\ past' = [c \in Components |-> past[c] \cup {repo'[c]}]
    /\ moments' = moments \cup {repo'}
    /\ edits' = edits + 1
    /\ UNCHANGED capture

-----------------------------------------------------------------------------
(* The reads of an attempt, in the phase ph it is in.                      *)

Done(ph) == \A c \in Items[ph] : read[ph][c] # Unread

\* HEAD moved between its resolution and the first fingerprint.
HeadMoved == Done("before") /\ read["before"][HEAD] # read["head"][HEAD]

\* The phase the attempt is in.
At(ph) ==
    /\ outcome = "running"
    /\ \A q \in Phases : Rank[q] < Rank[ph] => Done(q)
    /\ ~Done(ph)
    /\ ~HeadMoved

Record(ph, values) ==
    /\ read' = [read EXCEPT ![ph] =
                  [c \in Components |-> IF c \in DOMAIN values THEN values[c] ELSE @[c]]]
    /\ UNCHANGED <<repo, past, moments, edits, attempt, outcome, captured>>

\* HEAD comes before the files of the Git directory.
ReadMetadata(ph, c) ==
    /\ c \in Items[ph] \cap Metadata
    /\ c = Index /\ HEAD \in Items[ph] => read[ph][HEAD] # Unread
    /\ read[ph][c] = Unread
    /\ Record(ph, [d \in {c} |-> repo[c]])
    /\ UNCHANGED listed

\* A scan goes through the paths of the index first.
InOrder(ph, p) ==
    p \in Untracked => \A q \in Tracked : read[ph][Mode(q)] # Unread

\* git ls-files --others has gone over every path before the first is read.
ListingDone(ph) ==
    \A q \in Untracked : q \in listed[ph] \/ read[ph][Content(q)] # Unread

\* git ls-files --others names the path.
ListUntracked(ph, p) ==
    /\ ph \in {"scan", "rescan"}
    /\ p \in Untracked \ listed[ph]
    /\ InOrder(ph, p)
    /\ read[ph][Content(p)] = Unread
    /\ repo[Content(p)] # Absent
    /\ listed' = [listed EXCEPT ![ph] = @ \cup {p}]
    /\ UNCHANGED <<repo, past, moments, edits, attempt, read, outcome, captured>>

\* _working_state is called for the path: it is in the index or was listed.
Inspected(ph, p) ==
    /\ Content(p) \in Items[ph]
    /\ read[ph][Content(p)] = Unread
    /\ p \in Untracked => p \in listed[ph] /\ ListingDone(ph)

\* The file is missing (or, untracked, is not listed): the path is absent.
ReadMissing(ph, p) ==
    /\ Content(p) \in Items[ph]
    /\ InOrder(ph, p)
    /\ p \in Untracked /\ p \in listed[ph] => ListingDone(ph)
    /\ read[ph][Content(p)] = Unread
    /\ repo[Content(p)] = Absent
    /\ Record(ph, [d \in {Content(p), Mode(p)} |-> Absent])
    /\ UNCHANGED listed

\* A PreflightError that is not an _UnstableCapture ends the whole capture.
Fail ==
    /\ outcome' = "error"
    /\ UNCHANGED <<repo, past, moments, edits, attempt, read, listed, captured>>

\* The directory is missing too: the file cannot even be looked for, and
\* nobody takes _RootedPathMissing for an absent file.  When a path below a
\* directory is missing, either may be the case.
DirectoryMissing(ph, p) ==
    /\ p \in Nested
    /\ Inspected(ph, p)
    /\ repo[Content(p)] = Absent
    /\ Fail

\* _working_state reads the bytes first and the mode with a later stat.
ReadContent(ph, p) ==
    /\ Inspected(ph, p)
    /\ repo[Content(p)] # Absent
    /\ Record(ph, [d \in {Content(p)} |-> repo[Content(p)]])
    /\ UNCHANGED listed

\* The bytes are read and the mode is not.
BytesRead(ph, p) ==
    /\ Mode(p) \in Items[ph]
    /\ read[ph][Content(p)] \notin {Unread, Absent}
    /\ read[ph][Mode(p)] = Unread

ReadMode(ph, p) ==
    /\ BytesRead(ph, p)
    /\ repo[Mode(p)] # Absent
    /\ Record(ph, [d \in {Mode(p)} |-> repo[Mode(p)]])
    /\ UNCHANGED listed

\* The file went between the two.
ModeMissing(ph, p) ==
    /\ BytesRead(ph, p)
    /\ repo[Mode(p)] = Absent
    /\ Fail

-----------------------------------------------------------------------------
(* The end of an attempt.                                                  *)

AllRead == \A ph \in Phases : Done(ph)

\* Mutant of Stable: the working tree is scanned again but not compared.
StableMetadata ==
    \A c \in Metadata : /\ read["before"][c] = read["after"][c]
                         /\ read["before"][c] = read["final"][c]

Stable ==
    /\ \A c \in Metadata : /\ read["before"][c] = read["after"][c]
                           /\ read["before"][c] = read["final"][c]
    /\ listed["scan"] = listed["rescan"]
    /\ \A c \in ScannedParts : read["scan"][c] = read["rescan"][c]

\* The data of the ChangeSet comes from the first scan.
Data ==
    [c \in Components |->
       CASE c = HEAD -> read["head"][c]
         [] c = Index -> read["collect"][c]
         [] c \in ScannedParts -> read["scan"][c]
         [] c \in PathParts(Ignored) -> read["ignored"][c]]

Return ==
    /\ outcome = "running"
    /\ AllRead /\ ~HeadMoved /\ Stable
    /\ outcome' = "captured"
    /\ captured' = Data
    /\ UNCHANGED <<repo, past, moments, edits, attempt, read, listed>>

Unstable == outcome = "running" /\ (HeadMoved \/ (AllRead /\ ~Stable))

\* Mutant of Retry: as often as it takes.
RetryForever ==
    /\ Unstable
    /\ attempt' = 1
    /\ read' = NothingRead
    /\ listed' = NothingListed
    /\ moments' = {repo}
    /\ UNCHANGED <<repo, past, edits, outcome, captured>>

\* Everything read is dropped, and one more attempt is made.
Retry ==
    /\ Unstable
    /\ attempt = 0
    /\ attempt' = 1
    /\ read' = NothingRead
    /\ listed' = NothingListed
    /\ moments' = {repo}
    /\ UNCHANGED <<repo, past, edits, outcome, captured>>

\* Mutant of GiveUp: the first attempt may be the last.
GiveUpAtOnce ==
    /\ Unstable
    /\ outcome' = "unstable"
    /\ UNCHANGED <<repo, past, moments, edits, attempt, read, listed, captured>>

GiveUp ==
    /\ Unstable
    /\ attempt = 1
    /\ outcome' = "unstable"
    /\ UNCHANGED <<repo, past, moments, edits, attempt, read, listed, captured>>

\* One read of the phase the attempt is in.
ReadStep(ph) ==
    /\ At(ph)
    /\ \/ \E c \in Metadata : ReadMetadata(ph, c)
       \/ \E p \in Paths :
            \/ ReadContent(ph, p) \/ ReadMissing(ph, p) \/ DirectoryMissing(ph, p)
            \/ ReadMode(ph, p) \/ ModeMissing(ph, p)
       \/ \E p \in Untracked : ListUntracked(ph, p)

CaptureStep ==
    \/ \E ph \in Phases : ReadStep(ph)
    \/ Return \/ Retry \/ GiveUp

Finished == outcome # "running" /\ UNCHANGED captureVars

CaptureNext ==
    \/ \E cs \in EditSets : Edit(cs)
    \/ CaptureStep
    \/ Finished

CaptureSpec == CaptureInit /\ [][CaptureNext]_captureVars

-----------------------------------------------------------------------------
(* What a capture promises.                                                *)

\* What a ChangeSet holds of the commit, the index and every
\* scanned path was all there at one moment of the attempt that read it: two
\* equal scans between equal fingerprints are an atomic snapshot.
ScannedDataIsOneMoment ==
    outcome = "captured" =>
      \E m \in moments :
        \A c \in Metadata \cup ScannedParts : captured[c] = m[c]

\* A capture that fails has a cause that one retry cannot absorb: at least two
\* edits where it is given up as unstable, and, where it ends in an error, a
\* missing path that was there earlier in the capture, or one in the index or
\* in the commit whose directory may be missing too.  Any other single edit,
\* wherever in the attempt it falls, is absorbed.
FailureHasCause ==
    /\ outcome = "unstable" => edits >= 2
    /\ outcome = "error" =>
         \E p \in Paths :
           /\ repo[Content(p)] = Absent
           /\ p \in Nested \ Untracked \/ past[Content(p)] # {Absent}

\* docs/05_repository_scope_and_changeset.md: "A changed state discards the
\* entire attempt and retries once."  Then one edit cannot fail a capture.
OneEditIsRetried == edits = 1 => outcome \notin {"unstable", "error"}

\* docs/05_repository_scope_and_changeset.md: "deletion uses an explicit
\* absence marker".  Then a repository at rest, with deletions in it, is
\* captured.
DeletionsAreCaptured == edits = 0 => outcome # "error"

\* How far a capture is: the second attempt is further than all of the first.
Slots == Cardinality(Phases \X Components) + 2 * Cardinality(Untracked)
Progress ==
    attempt * (Slots + 1)
      + Cardinality({pc \in Phases \X Components : read[pc[1]][pc[2]] # Unread})
      + Cardinality(listed["scan"]) + Cardinality(listed["rescan"])

\* However long the author keeps editing, a capture ends: each of its steps
\* ends it or brings it further, no edit brings it back, and there is only so
\* far to go.
CaptureAdvances ==
    [][ /\ outcome = "running"
        /\ outcome' # "running" \/ Progress' > Progress
        /\ Progress' <= 2 * Slots + 1 ]_capture

=============================================================================
