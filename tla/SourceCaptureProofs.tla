------------------------ MODULE SourceCaptureProofs ------------------------
(***************************************************************************)
(* Proofs about capture_changeset for any paths, any versions, any number  *)
(* of edits and any interleaving of them with the reads.                   *)
(***************************************************************************)
EXTENDS SourceCapture, FiniteSetTheorems, TLAPS

(***************************************************************************)
(* Components and phases.                                                  *)
(***************************************************************************)

\* The parts of different paths, and the Git metadata, are different.
LEMMA ComponentKinds ==
    /\ HEAD \in Components /\ Index \in Components /\ HEAD # Index
    /\ ScannedParts \subseteq Components
    /\ PathParts(Ignored) \subseteq Components
    /\ ScannedParts \cap Metadata = {}
    /\ PathParts(Ignored) \cap Metadata = {}
    /\ PathParts(Ignored) \cap ScannedParts = {}
    /\ Components = Metadata \cup ScannedParts \cup PathParts(Ignored)
    /\ \A p \in Paths : Content(p) \in Components /\ Mode(p) \in Components
    /\ \A p \in Scanned : Content(p) \in ScannedParts /\ Mode(p) \in ScannedParts
<1>1. \A p : <<p, "content">> # <<"git", "head">> /\ <<p, "content">> # <<"git", "index">>
  OBVIOUS
<1>2. \A p : <<p, "mode">> # <<"git", "head">> /\ <<p, "mode">> # <<"git", "index">>
  OBVIOUS
<1>3. \A p, q : /\ <<p, "content">> # <<q, "mode">>
                /\ <<p, "content">> = <<q, "content">> => p = q
                /\ <<p, "mode">> = <<q, "mode">> => p = q
  OBVIOUS
<1>4. <<"git", "head">> # <<"git", "index">>
  OBVIOUS
<1> QED BY <1>1, <1>2, <1>3, <1>4, CaptureConstants
        DEF Components, ScannedParts, PathParts, Paths, Scanned, Metadata, HEAD, Index,
            Content, Mode

\* A phase reads components only, and of a path both parts or none.
LEMMA ItemKinds ==
    ASSUME NEW ph \in Phases
    PROVE  /\ Items[ph] \subseteq Components
           /\ \A p \in Paths : Content(p) \in Items[ph] <=> Mode(p) \in Items[ph]
           /\ ph \in {"scan", "rescan"} => Items[ph] = ScannedParts
<1>1. \A ps, p : /\ <<p, "content">> \in PathParts(ps) <=> p \in ps
                 /\ <<p, "mode">> \in PathParts(ps) <=> p \in ps
  BY DEF PathParts, Content, Mode
<1>2. \A p \in Paths : Content(p) \notin Metadata /\ Mode(p) \notin Metadata
  BY ComponentKinds DEF Metadata, HEAD, Index, Content, Mode
<1> QED BY <1>1, <1>2, ComponentKinds DEF Items, Phases, Metadata, ScannedParts, Content, Mode

\* The order of the phases.
LEMMA Ranks ==
    /\ Rank["head"] = 0 /\ Rank["before"] = 1 /\ Rank["collect"] = 2 /\ Rank["scan"] = 3
    /\ Rank["ignored"] = 4 /\ Rank["after"] = 5 /\ Rank["rescan"] = 6 /\ Rank["final"] = 7
    /\ \A ph \in Phases : Rank[ph] \in 0 .. 7
BY DEF Rank, Phases

(***************************************************************************)
(* What one read does.                                                     *)
(***************************************************************************)

\* What the repository holds is never mistaken for nothing read.
LEMMA RepoIsRead ==
    ASSUME CaptureTypeOK
    PROVE  /\ \A c \in Components : repo[c] \in Values /\ repo[c] # Unread
           /\ \A p \in Paths : repo[Content(p)] = Absent <=> repo[Mode(p)] = Absent
BY CaptureConstants DEF CaptureTypeOK, Repository, Values

\* A read fills slots of its phase with what the repository holds now, and
\* touches nothing else.
Fills(ph) ==
    /\ read' \in [Phases -> [Components -> Values \cup {Unread}]]
    /\ \A q \in Phases \ {ph} : read'[q] = read[q]
    /\ \A c \in Components :
         \/ read'[ph][c] = read[ph][c]
         \/ c \in Items[ph] /\ read'[ph][c] = repo[c]

\* Record fills the slots it is given.
LEMMA RecordFills ==
    ASSUME CaptureTypeOK, NEW ph \in Phases, NEW values, Record(ph, values),
           DOMAIN values \subseteq Items[ph],
           \A c \in DOMAIN values : values[c] = repo[c]
    PROVE  /\ Fills(ph)
           /\ \A c \in DOMAIN values : read'[ph][c] = repo[c]
           /\ UNCHANGED <<repo, past, moments, edits, attempt, outcome, captured>>
<1> DEFINE filled == [c \in Components |->
                        IF c \in DOMAIN values THEN values[c] ELSE read[ph][c]]
<1>0. Items[ph] \subseteq Components
  BY ItemKinds
<1>1. read' = [read EXCEPT ![ph] = filled]
  BY DEF Record
<1>2. read \in [Phases -> [Components -> Values \cup {Unread}]]
  BY DEF CaptureTypeOK
<1>3. \A c \in Components : filled[c] = IF c \in DOMAIN values THEN repo[c] ELSE read[ph][c]
  OBVIOUS
<1>4. filled \in [Components -> Values \cup {Unread}]
  BY <1>2, RepoIsRead
<1> HIDE DEF filled
<1>5. /\ read' \in [Phases -> [Components -> Values \cup {Unread}]]
      /\ \A q \in Phases \ {ph} : read'[q] = read[q]
      /\ read'[ph] = filled
  BY <1>1, <1>2, <1>4
<1>6. \A c \in Components :
        read'[ph][c] = IF c \in DOMAIN values THEN repo[c] ELSE read[ph][c]
  BY <1>3, <1>5
<1>7. UNCHANGED <<repo, past, moments, edits, attempt, outcome, captured>>
  BY DEF Record
<1>8. Fills(ph)
  BY <1>5, <1>6 DEF Fills
<1>9. \A c \in DOMAIN values : read'[ph][c] = repo[c]
  BY <1>0, <1>6
<1> QED BY <1>7, <1>8, <1>9

\* The listing of git ls-files --others: a path it names is there, and a path
\* it does not name is not read unless it is missing.
Lists(ph) ==
    /\ listed' \in [{"scan", "rescan"} -> SUBSET Untracked]
    /\ \A q \in {"scan", "rescan"} :
         /\ listed[q] \subseteq listed'[q]
         /\ q # ph => listed'[q] = listed[q]
         /\ \A p \in listed'[q] \ listed[q] : repo[Content(p)] # Absent
         /\ \A p \in Untracked \ listed'[q] :
              \/ read'[q][Content(p)] = read[q][Content(p)]
              \/ read'[q][Content(p)] = Absent

\* What is listed, or read in the phase ph, grows.
ListsMore ==
    \E p \in Untracked, q \in {"scan", "rescan"} :
      p \notin listed[q] /\ listed' = [listed EXCEPT ![q] = @ \cup {p}]

ReadsMore(ph) ==
    /\ UNCHANGED listed
    /\ \E c \in Components : read[ph][c] = Unread /\ read'[ph][c] # Unread

\* What fails a read: a missing path that was listed, or of which the bytes
\* are read, or one whose directory may be missing.
MeetsMissing(ph) ==
    \E p \in Paths :
      /\ repo[Content(p)] = Absent
      /\ \/ p \in Nested \ Untracked
         \/ ph \in {"scan", "rescan"} /\ p \in listed[ph]
         \/ read[ph][Content(p)] \notin {Unread, Absent}

\* Each read of a phase fills slots of it, lists a path, or fails the call.
LEMMA ReadEffect ==
    ASSUME CaptureTypeOK, NEW ph \in Phases, ReadStep(ph)
    PROVE  /\ At(ph)
           /\ Fills(ph) /\ Lists(ph)
           /\ UNCHANGED <<repo, past, moments, edits, attempt, captured>>
           /\ \/ outcome' = "error" /\ UNCHANGED <<read, listed>> /\ MeetsMissing(ph)
              \/ outcome' = "running" /\ UNCHANGED read /\ ListsMore
              \/ outcome' = "running" /\ ReadsMore(ph)
<1>0. /\ At(ph) /\ outcome = "running"
      /\ read \in [Phases -> [Components -> Values \cup {Unread}]]
      /\ listed \in [{"scan", "rescan"} -> SUBSET Untracked]
      /\ Items[ph] \subseteq Components
  BY ItemKinds DEF ReadStep, At, CaptureTypeOK
<1>1. ASSUME NEW c \in Metadata, ReadMetadata(ph, c)
      PROVE  /\ Fills(ph)
             /\ UNCHANGED <<repo, past, moments, edits, attempt, captured, listed, outcome>>
             /\ read[ph][c] = Unread /\ read'[ph][c] # Unread /\ c \in Components
             /\ \A p \in Paths : read'[ph][Content(p)] = read[ph][Content(p)]
  <2>1. c \in Items[ph] /\ c \in Components /\ read[ph][c] = Unread
    BY <1>0, <1>1 DEF ReadMetadata
  <2>2. /\ Fills(ph) /\ read'[ph][c] = repo[c]
        /\ UNCHANGED <<repo, past, moments, edits, attempt, outcome, captured>>
    BY <1>1, <2>1, RecordFills DEF ReadMetadata
  <2>3. \A d \in Components \ {c} : read'[ph][d] = read[ph][d]
    BY <1>0, <1>1 DEF ReadMetadata, Record
  <2>4. \A p \in Paths : Content(p) \in Components /\ Content(p) # c
    BY ComponentKinds DEF Metadata, HEAD, Index, Content
  <2> QED BY <1>1, <2>1, <2>2, <2>3, <2>4, RepoIsRead DEF ReadMetadata
<1>2. ASSUME NEW p \in Paths, ReadMissing(ph, p)
      PROVE  /\ Fills(ph)
             /\ UNCHANGED <<repo, past, moments, edits, attempt, captured, listed, outcome>>
             /\ read[ph][Content(p)] = Unread /\ read'[ph][Content(p)] = Absent
             /\ \A q \in Paths \ {p} : read'[ph][Content(q)] = read[ph][Content(q)]
  <2>1. /\ Content(p) \in Items[ph] /\ Mode(p) \in Items[ph]
        /\ repo[Content(p)] = Absent /\ repo[Mode(p)] = Absent
        /\ read[ph][Content(p)] = Unread
    BY <1>2, ItemKinds, RepoIsRead DEF ReadMissing
  <2>2. /\ Fills(ph) /\ read'[ph][Content(p)] = repo[Content(p)]
        /\ UNCHANGED <<repo, past, moments, edits, attempt, outcome, captured>>
    BY <1>2, <2>1, RecordFills DEF ReadMissing
  <2>3. \A d \in Components \ {Content(p), Mode(p)} : read'[ph][d] = read[ph][d]
    BY <1>0, <1>2 DEF ReadMissing, Record
  <2>4. \A q \in Paths \ {p} :
          Content(q) \in Components /\ Content(q) # Content(p) /\ Content(q) # Mode(p)
    BY ComponentKinds DEF Content, Mode
  <2> QED BY <1>2, <2>1, <2>2, <2>3, <2>4 DEF ReadMissing
<1>3. ASSUME NEW p \in Paths, ReadContent(ph, p)
      PROVE  /\ Fills(ph)
             /\ UNCHANGED <<repo, past, moments, edits, attempt, captured, listed, outcome>>
             /\ read[ph][Content(p)] = Unread /\ read'[ph][Content(p)] # Unread
             /\ p \in Untracked => p \in listed[ph]
             /\ \A q \in Paths \ {p} : read'[ph][Content(q)] = read[ph][Content(q)]
  <2>1. /\ Content(p) \in Items[ph] /\ Content(p) \in Components
        /\ read[ph][Content(p)] = Unread
        /\ p \in Untracked => p \in listed[ph]
    BY <1>0, <1>3 DEF ReadContent, Inspected
  <2>2. /\ Fills(ph) /\ read'[ph][Content(p)] = repo[Content(p)]
        /\ UNCHANGED <<repo, past, moments, edits, attempt, outcome, captured>>
    BY <1>3, <2>1, RecordFills DEF ReadContent
  <2>3. \A d \in Components \ {Content(p)} : read'[ph][d] = read[ph][d]
    BY <1>0, <1>3 DEF ReadContent, Record
  <2>4. \A q \in Paths \ {p} : Content(q) \in Components /\ Content(q) # Content(p)
    BY ComponentKinds DEF Content
  <2> QED BY <1>3, <2>1, <2>2, <2>3, <2>4, RepoIsRead DEF ReadContent
<1>4. ASSUME NEW p \in Paths, ReadMode(ph, p)
      PROVE  /\ Fills(ph)
             /\ UNCHANGED <<repo, past, moments, edits, attempt, captured, listed, outcome>>
             /\ read[ph][Mode(p)] = Unread /\ read'[ph][Mode(p)] # Unread
             /\ \A q \in Paths : read'[ph][Content(q)] = read[ph][Content(q)]
  <2>1. /\ Mode(p) \in Items[ph] /\ Mode(p) \in Components
        /\ read[ph][Mode(p)] = Unread
    BY <1>0, <1>4 DEF ReadMode, BytesRead
  <2>2. /\ Fills(ph) /\ read'[ph][Mode(p)] = repo[Mode(p)]
        /\ UNCHANGED <<repo, past, moments, edits, attempt, outcome, captured>>
    BY <1>4, <2>1, RecordFills DEF ReadMode
  <2>3. \A d \in Components \ {Mode(p)} : read'[ph][d] = read[ph][d]
    BY <1>0, <1>4 DEF ReadMode, Record
  <2>4. \A q \in Paths : Content(q) \in Components /\ Content(q) # Mode(p)
    BY ComponentKinds DEF Content, Mode
  <2> QED BY <1>4, <2>1, <2>2, <2>3, <2>4, RepoIsRead DEF ReadMode
<1>5. ASSUME NEW p \in Paths, ModeMissing(ph, p)
      PROVE  /\ UNCHANGED <<repo, past, moments, edits, attempt, captured, read, listed>>
             /\ outcome' = "error" /\ MeetsMissing(ph)
  <2>1. repo[Content(p)] = Absent /\ read[ph][Content(p)] \notin {Unread, Absent}
    BY <1>5, RepoIsRead DEF ModeMissing, BytesRead
  <2> QED BY <1>5, <2>1 DEF ModeMissing, Fail, MeetsMissing
<1>6. ASSUME NEW p \in Untracked, ListUntracked(ph, p)
      PROVE  /\ UNCHANGED <<repo, past, moments, edits, attempt, captured, read, outcome>>
             /\ ph \in {"scan", "rescan"} /\ p \notin listed[ph]
             /\ listed' = [listed EXCEPT ![ph] = listed[ph] \cup {p}]
             /\ repo[Content(p)] # Absent
  BY <1>6 DEF ListUntracked
<1>7. ASSUME UNCHANGED read
      PROVE  Fills(ph)
  <2>1. read' \in [Phases -> [Components -> Values \cup {Unread}]]
    BY <1>0, <1>7
  <2>2. \A q \in Phases : read'[q] = read[q]
    BY <1>7
  <2> QED BY <2>1, <2>2 DEF Fills
<1>8. ASSUME UNCHANGED listed, Fills(ph),
             \A p \in Untracked :
               \/ ph \in {"scan", "rescan"} /\ p \in listed[ph]
               \/ read'[ph][Content(p)] = read[ph][Content(p)]
               \/ read'[ph][Content(p)] = Absent
      PROVE  Lists(ph)
  <2>1. \A q \in {"scan", "rescan"} : q # ph => read'[q] = read[q]
    BY <1>8 DEF Fills, Phases
  <2> QED BY <1>0, <1>8, <2>1 DEF Lists
<1>9. Untracked \subseteq Paths
  BY DEF Paths, Scanned
<1>10. ASSUME NEW p \in Untracked, Inspected(ph, p)
       PROVE  ph \in {"scan", "rescan"} /\ p \in listed[ph]
  BY <1>9, <1>10, CaptureConstants, ComponentKinds DEF Inspected, Items, Phases, PathParts,
     Metadata, HEAD, Index, Content, Mode, Paths, Scanned, ScannedParts
<1> DEFINE Effect ==
      /\ Fills(ph) /\ Lists(ph)
      /\ UNCHANGED <<repo, past, moments, edits, attempt, captured>>
      /\ \/ outcome' = "error" /\ UNCHANGED <<read, listed>> /\ MeetsMissing(ph)
         \/ outcome' = "running" /\ UNCHANGED read /\ ListsMore
         \/ outcome' = "running" /\ ReadsMore(ph)
<1>11. ASSUME NEW c \in Metadata, ReadMetadata(ph, c)
       PROVE  Effect
  <2>1. Lists(ph)
    BY <1>1, <1>8, <1>9, <1>11
  <2> QED BY <1>0, <1>1, <1>11, <2>1 DEF ReadsMore
<1>12. ASSUME NEW p \in Paths, ReadMissing(ph, p)
       PROVE  Effect
  <2>1. Lists(ph)
    BY <1>2, <1>8, <1>9, <1>12
  <2>2. Absent # Unread /\ Content(p) \in Components
    BY CaptureConstants, ComponentKinds
  <2> QED BY <1>0, <1>2, <1>12, <2>1, <2>2 DEF ReadsMore
<1>13. ASSUME NEW p \in Paths, ReadContent(ph, p)
       PROVE  Effect
  <2>1. Lists(ph)
    BY <1>3, <1>8, <1>9, <1>10, <1>13 DEF ReadContent
  <2>2. Content(p) \in Components
    BY ComponentKinds
  <2> QED BY <1>0, <1>3, <1>13, <2>1, <2>2 DEF ReadsMore
<1>14. ASSUME NEW p \in Paths, ReadMode(ph, p)
       PROVE  Effect
  <2>1. Lists(ph)
    BY <1>4, <1>8, <1>9, <1>14
  <2>2. Mode(p) \in Components
    BY ComponentKinds
  <2> QED BY <1>0, <1>4, <1>14, <2>1, <2>2 DEF ReadsMore
<1>15. ASSUME NEW p \in Paths, ModeMissing(ph, p)
       PROVE  Effect
  <2>1. Fills(ph) /\ Lists(ph)
    BY <1>5, <1>7, <1>8, <1>15
  <2> QED BY <1>5, <1>15, <2>1
<1>16. ASSUME NEW p \in Untracked, ListUntracked(ph, p)
       PROVE  Effect
  <2>1. Fills(ph)
    BY <1>6, <1>7, <1>16
  <2>2. Lists(ph)
    BY <1>0, <1>6, <1>16 DEF Lists
  <2>3. ListsMore
    BY <1>6, <1>16 DEF ListsMore
  <2> QED BY <1>0, <1>6, <1>16, <2>1, <2>2, <2>3
<1>17. ASSUME NEW p \in Paths, DirectoryMissing(ph, p)
       PROVE  Effect
  <2>1. /\ UNCHANGED <<repo, past, moments, edits, attempt, captured, read, listed>>
        /\ outcome' = "error" /\ repo[Content(p)] = Absent
    BY <1>17 DEF DirectoryMissing, Fail
  <2>2. MeetsMissing(ph)
    BY <1>10, <1>17, <2>1 DEF DirectoryMissing, MeetsMissing
  <2>3. Fills(ph) /\ Lists(ph)
    BY <1>7, <1>8, <2>1
  <2> QED BY <2>1, <2>2, <2>3
<1> HIDE DEF Effect
<1>18. Effect
  BY <1>11, <1>12, <1>13, <1>14, <1>15, <1>16, <1>17 DEF ReadStep
<1> QED BY <1>0, <1>18 DEF Effect

(***************************************************************************)
(* Types.                                                                  *)
(***************************************************************************)

\* Types, and the history: the repository is one of the moments.
CaptureInv == CaptureTypeOK /\ repo \in moments

\* Nothing read and nothing listed are values of read and listed.
LEMMA NothingTypes ==
    /\ NothingRead \in [Phases -> [Components -> Values \cup {Unread}]]
    /\ NothingListed \in [{"scan", "rescan"} -> SUBSET Untracked]
BY DEF NothingRead, NothingListed

\* What is captured is what was read of the components.
LEMMA DataShape ==
    ASSUME CaptureTypeOK
    PROVE  /\ Data \in [Components -> Values \cup {Unread}]
           /\ Data[HEAD] = read["head"][HEAD]
           /\ Data[Index] = read["collect"][Index]
           /\ \A c \in ScannedParts : Data[c] = read["scan"][c]
<1>1. /\ read["head"] \in [Components -> Values \cup {Unread}]
      /\ read["collect"] \in [Components -> Values \cup {Unread}]
      /\ read["scan"] \in [Components -> Values \cup {Unread}]
      /\ read["ignored"] \in [Components -> Values \cup {Unread}]
  BY DEF CaptureTypeOK, Phases
<1>2. ASSUME NEW c \in Components
      PROVE  /\ Data[c] \in Values \cup {Unread}
             /\ c = HEAD => Data[c] = read["head"][c]
             /\ c = Index => Data[c] = read["collect"][c]
             /\ c \in ScannedParts => Data[c] = read["scan"][c]
  <2>1. CASE c = HEAD
    <3>1. c # Index /\ c \notin ScannedParts /\ c \notin PathParts(Ignored)
      BY <2>1, ComponentKinds DEF Metadata
    <3> QED BY <1>1, <2>1, <3>1 DEF Data
  <2>2. CASE c = Index
    <3>1. c # HEAD /\ c \notin ScannedParts /\ c \notin PathParts(Ignored)
      BY <2>2, ComponentKinds DEF Metadata
    <3> QED BY <1>1, <2>2, <3>1 DEF Data
  <2>3. CASE c \in ScannedParts
    <3>1. c # HEAD /\ c # Index /\ c \notin PathParts(Ignored)
      BY <2>3, ComponentKinds DEF Metadata
    <3> QED BY <1>1, <2>3, <3>1 DEF Data
  <2>4. CASE c \in PathParts(Ignored)
    <3>1. c # HEAD /\ c # Index /\ c \notin ScannedParts
      BY <2>4, ComponentKinds DEF Metadata
    <3> QED BY <1>1, <2>4, <3>1 DEF Data
  <2> QED BY <2>1, <2>2, <2>3, <2>4, ComponentKinds DEF Metadata
<1> DEFINE datum(c) ==
      CASE c = HEAD -> read["head"][c]
        [] c = Index -> read["collect"][c]
        [] c \in ScannedParts -> read["scan"][c]
        [] c \in PathParts(Ignored) -> read["ignored"][c]
<1>3. Data = [c \in Components |-> datum(c)]
  BY DEF Data
<1> HIDE DEF datum
<1>4. Data \in [Components -> Values \cup {Unread}]
  BY <1>2, <1>3
<1> QED BY <1>2, <1>4, ComponentKinds

\* Every step leaves the author and the capture with values they can have.
LEMMA CaptureTypeInductive == CaptureInv /\ [CaptureNext]_captureVars => CaptureInv'
<1> SUFFICES ASSUME CaptureInv, [CaptureNext]_captureVars
             PROVE  CaptureInv'
  OBVIOUS
<1> USE DEF CaptureInv
<1>1. ASSUME NEW cs \in EditSets, Edit(cs)
      PROVE  CaptureInv'
  <2>1. \A c \in Components : repo'[c] \in Values
    BY <1>1 DEF Edit, Repository
  <2>2. edits' \in 0 .. MaxEdits
    BY <1>1, CaptureConstants DEF Edit, CaptureTypeOK
  <2>3. past' \in [Components -> SUBSET Values]
    BY <1>1, <2>1 DEF Edit, CaptureTypeOK
  <2> QED BY <1>1, <2>2, <2>3 DEF Edit, CaptureTypeOK, capture
<1>2. ASSUME NEW ph \in Phases, ReadStep(ph)
      PROVE  CaptureInv'
  BY <1>2, ReadEffect DEF CaptureTypeOK, Fills, Lists
<1>3. CASE Return
  BY <1>3, DataShape DEF Return, CaptureTypeOK
<1>4. CASE Retry
  BY <1>4, NothingTypes DEF Retry, CaptureTypeOK
<1>5. CASE GiveUp
  BY <1>5 DEF GiveUp, CaptureTypeOK
<1>6. CASE Finished \/ UNCHANGED captureVars
  BY <1>6 DEF Finished, captureVars, capture, CaptureTypeOK
<1> QED BY <1>1, <1>2, <1>3, <1>4, <1>5, <1>6 DEF CaptureNext, CaptureStep

\* Type correctness of the repository, the histories and the capture.
THEOREM CaptureTypeCorrect == CaptureSpec => []CaptureInv
<1>1. CaptureInit => CaptureInv
  <2> SUFFICES ASSUME CaptureInit
               PROVE  CaptureInv
    OBVIOUS
  <2>1. repo \in Repository
    BY InitialRepositories DEF CaptureInit
  <2>2. \A c \in Components : repo[c] \in Values
    BY <2>1 DEF Repository
  <2> QED BY <2>1, <2>2, NothingTypes, CaptureConstants DEF CaptureInit, CaptureInv, CaptureTypeOK
<1> QED BY <1>1, CaptureTypeInductive, PTL DEF CaptureSpec

(***************************************************************************)
(* The phases take their turn.                                             *)
(***************************************************************************)

\* A phase reads its own components, and only once the phases before it are
\* done.
InTurn ==
    /\ \A ph \in Phases : \A c \in Components \ Items[ph] : read[ph][c] = Unread
    /\ \A ph, q \in Phases :
         Rank[ph] < Rank[q] /\ ~Done(ph) => \A c \in Components : read[q][c] = Unread

\* What a read fills stays filled.
LEMMA FillsKeep ==
    ASSUME CaptureTypeOK, NEW ph \in Phases, Fills(ph)
    PROVE  /\ \A q \in Phases : \A c \in Components :
                read[q][c] # Unread => read'[q][c] # Unread
           /\ \A q \in Phases : Done(q) => Done(q)'
<1>1. \A q \in Phases : \A c \in Components : read[q][c] # Unread => read'[q][c] # Unread
  BY RepoIsRead DEF Fills
<1> QED BY <1>1, ItemKinds DEF Done

\* No phase starts early, in either attempt.
LEMMA TurnInductive == CaptureInv /\ InTurn /\ [CaptureNext]_captureVars => InTurn'
<1> SUFFICES ASSUME CaptureInv, InTurn, [CaptureNext]_captureVars
             PROVE  InTurn'
  OBVIOUS
<1>0. CaptureTypeOK
  BY DEF CaptureInv
<1>1. ASSUME UNCHANGED read
      PROVE  InTurn'
  BY <1>1 DEF InTurn, Done
<1>2. ASSUME NEW cs \in EditSets, Edit(cs)
      PROVE  InTurn'
  BY <1>1, <1>2 DEF Edit, capture
<1>3. ASSUME NEW x \in Phases, ReadStep(x)
      PROVE  InTurn'
  <2>1. At(x) /\ Fills(x)
    BY <1>0, <1>3, ReadEffect
  <2>2. ASSUME NEW ph \in Phases, NEW c \in Components \ Items[ph]
        PROVE  read'[ph][c] = Unread
    BY <2>1 DEF InTurn, Fills
  <2>3. ASSUME NEW ph \in Phases, NEW q \in Phases, Rank[ph] < Rank[q], ~Done(ph)',
               NEW c \in Components
        PROVE  read'[q][c] = Unread
    <3>1. ~Done(ph)
      BY <1>0, <2>1, <2>3, FillsKeep
    <3>2. q # x
      BY <2>1, <2>3, <3>1 DEF At
    <3> QED BY <2>1, <2>3, <3>1, <3>2 DEF InTurn, Fills
  <2> QED BY <2>2, <2>3 DEF InTurn
<1>4. CASE Retry
  <2>1. \A ph \in Phases : \A c \in Components : read'[ph][c] = Unread
    BY <1>4 DEF Retry, NothingRead
  <2> QED BY <2>1, ItemKinds DEF InTurn
<1>5. CASE Return \/ GiveUp \/ Finished \/ UNCHANGED captureVars
  BY <1>1, <1>5 DEF Return, GiveUp, Finished, captureVars, capture
<1> QED BY <1>2, <1>3, <1>4, <1>5 DEF CaptureNext, CaptureStep

\* A phase with something read has the phases before it done.
LEMMA EarlierDone ==
    ASSUME InTurn, NEW ph \in Phases, NEW q \in Phases, Rank[ph] < Rank[q],
           NEW c \in Components, read[q][c] # Unread
    PROVE  Done(ph)
BY DEF InTurn

(***************************************************************************)
(* Failures.  As long as nothing is edited in an attempt, everything it   *)
(* has read is as it stands, and everything it reads again is the same.    *)
(***************************************************************************)

\* In an attempt nobody has disturbed, what is read and listed still holds.
ReadOfRepo ==
    moments = {repo} =>
      /\ \A ph \in Phases : \A c \in Components : read[ph][c] \in {Unread, repo[c]}
      /\ \A ph \in {"scan", "rescan"} :
           /\ \A p \in listed[ph] : repo[Content(p)] # Absent
           /\ \A p \in Untracked \ listed[ph] : read[ph][Content(p)] \in {Unread, Absent}

\* The first attempt was given up for an edit, and so is the second.
EditsCount ==
    /\ edits >= attempt
    /\ moments # {repo} => edits > attempt
    /\ outcome = "unstable" => edits >= 2

\* An attempt that nothing disturbs is never unstable.
LEMMA UnstableIsDisturbed ==
    ASSUME CaptureInv, InTurn, ReadOfRepo, Unstable
    PROVE  moments # {repo}
<1> SUFFICES ASSUME moments = {repo}
             PROVE  FALSE
  OBVIOUS
<1>1. \A ph \in Phases : \A c \in Items[ph] : Done(ph) => read[ph][c] = repo[c]
  BY ItemKinds DEF ReadOfRepo, Done
<1>2. /\ Items["head"] = {HEAD} /\ Items["before"] = Metadata
      /\ Items["after"] = Metadata /\ Items["final"] = Metadata
      /\ Items["scan"] = ScannedParts /\ Items["rescan"] = ScannedParts
      /\ HEAD \in Metadata /\ HEAD \in Components
  BY ComponentKinds DEF Items, Phases, Metadata
<1>3. ~HeadMoved
  <2>1. ASSUME Done("before")
        PROVE  Done("head")
    <3>1. read["before"][HEAD] # Unread
      BY <1>2, <2>1 DEF Done
    <3> QED BY <1>2, <3>1, EarlierDone, Ranks DEF Phases
  <2> QED BY <1>1, <1>2, <2>1 DEF HeadMoved, Phases
<1>4. ASSUME AllRead
      PROVE  Stable
  <2>1. \A ph \in Phases : \A c \in Items[ph] : read[ph][c] = repo[c]
    BY <1>1, <1>4 DEF AllRead
  <2>2. \A c \in Metadata :
          read["before"][c] = read["after"][c] /\ read["before"][c] = read["final"][c]
    BY <1>2, <2>1 DEF Phases
  <2>3. \A c \in ScannedParts : read["scan"][c] = read["rescan"][c]
    BY <1>2, <2>1 DEF Phases
  <2>4. ASSUME NEW ph \in {"scan", "rescan"}
        PROVE  listed[ph] = {p \in Untracked : repo[Content(p)] # Absent}
    <3>1. listed[ph] \subseteq Untracked
      BY DEF CaptureInv, CaptureTypeOK
    <3>2. ASSUME NEW p \in Untracked
          PROVE  read[ph][Content(p)] = repo[Content(p)] /\ repo[Content(p)] # Unread
      <4>1. Content(p) \in ScannedParts /\ Content(p) \in Components
        BY ComponentKinds DEF Scanned
      <4> QED BY <1>2, <2>1, <4>1, RepoIsRead DEF CaptureInv, Phases
    <3> QED BY <3>1, <3>2 DEF ReadOfRepo
  <2> QED BY <2>2, <2>3, <2>4 DEF Stable
<1> QED BY <1>3, <1>4 DEF Unstable

\* A read in an undisturbed attempt is of the repository as it stands.
LEMMA ReadOfRepoInductive == CaptureInv /\ ReadOfRepo /\ [CaptureNext]_captureVars => ReadOfRepo'
<1> SUFFICES ASSUME CaptureInv, ReadOfRepo, [CaptureNext]_captureVars
             PROVE  ReadOfRepo'
  OBVIOUS
<1>0. CaptureTypeOK /\ repo \in moments
  BY DEF CaptureInv
<1>1. ASSUME UNCHANGED <<moments, repo, read, listed>>
      PROVE  ReadOfRepo'
  BY <1>1 DEF ReadOfRepo
<1>2. ASSUME NEW cs \in EditSets, Edit(cs)
      PROVE  ReadOfRepo'
  <2>1. moments' = moments \cup {repo'} /\ UNCHANGED <<read, listed>>
    BY <1>2 DEF Edit, capture
  <2>2. CASE moments' = {repo'}
    <3>1. repo' = repo /\ moments = {repo}
      BY <1>0, <2>1, <2>2
    <3> QED BY <1>1, <2>1, <2>2, <3>1
  <2>3. CASE moments' # {repo'}
    BY <2>3 DEF ReadOfRepo
  <2> QED BY <2>2, <2>3
<1>3. ASSUME NEW x \in Phases, ReadStep(x)
      PROVE  ReadOfRepo'
  <2>1. Fills(x) /\ Lists(x) /\ UNCHANGED <<repo, moments>>
    BY <1>0, <1>3, ReadEffect
  <2> SUFFICES ASSUME moments = {repo}
               PROVE  /\ \A ph \in Phases : \A c \in Components :
                           read'[ph][c] \in {Unread, repo[c]}
                      /\ \A ph \in {"scan", "rescan"} :
                           /\ \A p \in listed'[ph] : repo[Content(p)] # Absent
                           /\ \A p \in Untracked \ listed'[ph] :
                                read'[ph][Content(p)] \in {Unread, Absent}
    BY <2>1 DEF ReadOfRepo
  <2>2. \A ph \in Phases : \A c \in Components : read'[ph][c] \in {Unread, repo[c]}
    BY <2>1 DEF ReadOfRepo, Fills
  <2>3. ASSUME NEW ph \in {"scan", "rescan"}
        PROVE  /\ \A p \in listed'[ph] : repo[Content(p)] # Absent
               /\ \A p \in Untracked \ listed'[ph] :
                    read'[ph][Content(p)] \in {Unread, Absent}
    BY <2>1, <2>3 DEF ReadOfRepo, Lists
  <2> QED BY <2>2, <2>3
<1>4. CASE Retry
  <2>1. /\ \A ph \in Phases : \A c \in Components : read'[ph][c] = Unread
        /\ \A ph \in {"scan", "rescan"} : listed'[ph] = {}
    BY <1>4 DEF Retry, NothingRead, NothingListed
  <2>2. \A p \in Untracked : Content(p) \in Components
    BY ComponentKinds DEF Paths, Scanned
  <2> QED BY <2>1, <2>2 DEF ReadOfRepo, Phases
<1>5. CASE Return \/ GiveUp \/ Finished \/ UNCHANGED captureVars
  BY <1>1, <1>5 DEF Return, GiveUp, Finished, captureVars, capture
<1> QED BY <1>2, <1>3, <1>4, <1>5 DEF CaptureNext, CaptureStep

\* Each attempt is only given up for an edit of its own.
LEMMA EditsInductive ==
    CaptureInv /\ InTurn /\ ReadOfRepo /\ EditsCount /\ [CaptureNext]_captureVars => EditsCount'
<1> SUFFICES ASSUME CaptureInv, InTurn, ReadOfRepo, EditsCount, [CaptureNext]_captureVars
             PROVE  EditsCount'
  OBVIOUS
<1>0. CaptureTypeOK /\ edits \in Nat /\ attempt \in 0 .. 1
  BY CaptureConstants DEF CaptureInv, CaptureTypeOK
<1>1. ASSUME NEW cs \in EditSets, Edit(cs)
      PROVE  EditsCount'
  BY <1>0, <1>1 DEF Edit, EditsCount, capture
<1>2. ASSUME NEW x \in Phases, ReadStep(x)
      PROVE  EditsCount'
  <2>1. UNCHANGED <<repo, moments, edits, attempt>> /\ outcome' # "unstable"
    BY <1>0, <1>2, ReadEffect
  <2> QED BY <2>1 DEF EditsCount
<1>3. CASE Retry
  BY <1>0, <1>3, UnstableIsDisturbed DEF Retry, EditsCount, Unstable
<1>4. CASE GiveUp
  BY <1>0, <1>4, UnstableIsDisturbed DEF GiveUp, EditsCount
<1>5. CASE Return
  BY <1>5 DEF Return, EditsCount
<1>6. CASE Finished \/ UNCHANGED captureVars
  BY <1>6 DEF Finished, captureVars, capture, EditsCount
<1> QED BY <1>1, <1>2, <1>3, <1>4, <1>5, <1>6 DEF CaptureNext, CaptureStep

\* Nothing is read, listed or edited when a capture begins.
LEMMA NothingYet == CaptureInit => InTurn /\ ReadOfRepo /\ EditsCount
<1> SUFFICES ASSUME CaptureInit
             PROVE  InTurn /\ ReadOfRepo /\ EditsCount
  OBVIOUS
<1>1. /\ \A ph \in Phases : \A c \in Components : read[ph][c] = Unread
      /\ \A ph \in {"scan", "rescan"} : listed[ph] = {}
  BY DEF CaptureInit, NothingRead, NothingListed
<1>2. \A p \in Untracked : Content(p) \in Components
  BY ComponentKinds DEF Paths, Scanned
<1>3. EditsCount
  BY DEF CaptureInit, EditsCount
<1> QED BY <1>1, <1>2, <1>3, ItemKinds DEF InTurn, ReadOfRepo, Phases

\* What is read of a component, and what it is, are versions it has had.
ReadsArePast ==
    \A c \in Components :
      /\ repo[c] \in past[c]
      /\ \A ph \in Phases : read[ph][c] \in past[c] \cup {Unread}

\* Histories only grow, and with what is read.
LEMMA PastInductive == CaptureInv /\ ReadsArePast /\ [CaptureNext]_captureVars => ReadsArePast'
<1> SUFFICES ASSUME CaptureInv, ReadsArePast, [CaptureNext]_captureVars
             PROVE  ReadsArePast'
  OBVIOUS
<1>0. CaptureTypeOK
  BY DEF CaptureInv
<1>1. ASSUME UNCHANGED <<repo, past, read>>
      PROVE  ReadsArePast'
  BY <1>1 DEF ReadsArePast
<1>2. ASSUME NEW cs \in EditSets, Edit(cs)
      PROVE  ReadsArePast'
  <2>1. /\ \A c \in Components : past'[c] = past[c] \cup {repo'[c]}
        /\ read' = read
    BY <1>2 DEF Edit, capture
  <2> QED BY <2>1 DEF ReadsArePast
<1>3. ASSUME NEW x \in Phases, ReadStep(x)
      PROVE  ReadsArePast'
  BY <1>0, <1>3, ReadEffect DEF ReadsArePast, Fills
<1>4. CASE Retry
  <2>1. \A ph \in Phases : \A c \in Components : read'[ph][c] = Unread
    BY <1>4 DEF Retry, NothingRead
  <2> QED BY <1>4, <2>1 DEF Retry, ReadsArePast
<1>5. CASE Return \/ GiveUp \/ Finished \/ UNCHANGED captureVars
  BY <1>1, <1>5 DEF Return, GiveUp, Finished, captureVars, capture
<1> QED BY <1>2, <1>3, <1>4, <1>5 DEF CaptureNext, CaptureStep

\* What has been listed had been there, and what failed a capture is missing.
ListedArePast ==
    \A ph \in {"scan", "rescan"} : \A p \in listed[ph] : past[Content(p)] # {Absent}

ErrorHasCause ==
    outcome = "error" =>
      \E p \in Paths :
        /\ repo[Content(p)] = Absent
        /\ p \in Nested \ Untracked \/ past[Content(p)] # {Absent}

\* The read that fails a capture meets a path that is missing, and one that
\* had been there if it was listed or its bytes were read.
LEMMA CauseInductive ==
    CaptureInv /\ ReadsArePast /\ ListedArePast /\ ErrorHasCause /\ [CaptureNext]_captureVars
      => ListedArePast' /\ ErrorHasCause'
<1> SUFFICES ASSUME CaptureInv, ReadsArePast, ListedArePast, ErrorHasCause, [CaptureNext]_captureVars
             PROVE  ListedArePast' /\ ErrorHasCause'
  OBVIOUS
<1>0. /\ CaptureTypeOK
      /\ listed \in [{"scan", "rescan"} -> SUBSET Untracked]
      /\ \A p \in Paths : Content(p) \in Components
      /\ Untracked \subseteq Paths
  BY ComponentKinds DEF CaptureInv, CaptureTypeOK, Paths, Scanned
<1>1. ASSUME UNCHANGED <<past, listed>>
      PROVE  ListedArePast'
  BY <1>1 DEF ListedArePast
<1>2. ASSUME outcome' # "error"
      PROVE  ErrorHasCause'
  BY <1>2 DEF ErrorHasCause
<1>3. ASSUME NEW cs \in EditSets, Edit(cs)
      PROVE  ListedArePast' /\ ErrorHasCause'
  <2>1. UNCHANGED <<listed, outcome>> /\ outcome = "running"
    BY <1>3 DEF Edit, capture
  <2>2. \A c \in Components : past[c] \subseteq past'[c]
    BY <1>3 DEF Edit
  <2>3. \A p \in Paths : past[Content(p)] # {Absent} => past'[Content(p)] # {Absent}
    <3> SUFFICES ASSUME NEW p \in Paths, past'[Content(p)] = {Absent}
                 PROVE  past[Content(p)] = {Absent}
      OBVIOUS
    <3>1. past[Content(p)] # {}
      BY <1>0 DEF ReadsArePast
    <3> QED BY <1>0, <2>2, <3>1
  <2>4. ListedArePast'
    BY <1>0, <2>1, <2>3 DEF ListedArePast
  <2> QED BY <1>2, <2>1, <2>4
<1>4. ASSUME NEW x \in Phases, ReadStep(x)
      PROVE  ListedArePast' /\ ErrorHasCause'
  <2>1. /\ Lists(x) /\ UNCHANGED <<repo, past>>
        /\ outcome' # "error" \/ MeetsMissing(x)
    BY <1>0, <1>4, ReadEffect
  <2>2. ASSUME NEW q \in {"scan", "rescan"}, NEW p \in listed'[q]
        PROVE  past[Content(p)] # {Absent}
    <3>1. p \in Untracked /\ Content(p) \in Components
      BY <1>0, <2>1, <2>2 DEF Lists
    <3>2. CASE p \in listed[q]
      BY <3>2 DEF ListedArePast
    <3>3. CASE p \notin listed[q]
      <4>1. repo[Content(p)] # Absent
        BY <2>1, <2>2, <3>3 DEF Lists
      <4>2. repo[Content(p)] \in past[Content(p)]
        BY <3>1 DEF ReadsArePast
      <4> QED BY <4>1, <4>2
    <3> QED BY <3>2, <3>3
  <2>3. ListedArePast'
    BY <2>1, <2>2 DEF ListedArePast
  <2>4. CASE MeetsMissing(x)
    <3>1. PICK p \in Paths :
            /\ repo[Content(p)] = Absent
            /\ \/ p \in Nested \ Untracked
               \/ x \in {"scan", "rescan"} /\ p \in listed[x]
               \/ read[x][Content(p)] \notin {Unread, Absent}
      BY <2>4 DEF MeetsMissing
    <3>2. ASSUME read[x][Content(p)] \notin {Unread, Absent}
          PROVE  past[Content(p)] # {Absent}
      <4>1. read[x][Content(p)] \in past[Content(p)]
        BY <1>0, <3>2 DEF ReadsArePast
      <4> QED BY <3>2, <4>1
    <3>3. p \in Nested \ Untracked \/ past[Content(p)] # {Absent}
      BY <3>1, <3>2 DEF ListedArePast
    <3> QED BY <2>1, <2>3, <3>1, <3>3 DEF ErrorHasCause
  <2> QED BY <1>2, <2>1, <2>3, <2>4
<1>5. CASE Retry
  <2>1. listed' = NothingListed /\ outcome' = outcome /\ outcome = "running"
    BY <1>5 DEF Retry, Unstable
  <2>2. ListedArePast'
    BY <2>1 DEF ListedArePast, NothingListed
  <2> QED BY <1>2, <2>1, <2>2
<1>6. CASE Return \/ GiveUp
  BY <1>1, <1>2, <1>6 DEF Return, GiveUp
<1>7. CASE Finished \/ UNCHANGED captureVars
  BY <1>1, <1>7 DEF Finished, captureVars, capture, ErrorHasCause
<1> QED BY <1>3, <1>4, <1>5, <1>6, <1>7 DEF CaptureNext, CaptureStep

\* A capture is given up as unstable after two edits at least, and fails
\* otherwise only at a path that is missing and was there, or that may have
\* lost its directory: every other single edit is absorbed.
THEOREM FailuresHaveCauses == CaptureSpec => []FailureHasCause
<1>1. CaptureInit => ReadsArePast /\ ListedArePast /\ ErrorHasCause
  <2> SUFFICES ASSUME CaptureInit
               PROVE  ReadsArePast /\ ListedArePast /\ ErrorHasCause
    OBVIOUS
  <2>1. \A ph \in Phases : \A c \in Components : read[ph][c] = Unread
    BY DEF CaptureInit, NothingRead
  <2>2. \A ph \in {"scan", "rescan"} : listed[ph] = {}
    BY DEF CaptureInit, NothingListed
  <2>3. ReadsArePast
    BY <2>1 DEF CaptureInit, ReadsArePast
  <2> QED BY <2>2, <2>3 DEF CaptureInit, ListedArePast, ErrorHasCause
<1>2. EditsCount /\ ErrorHasCause => FailureHasCause
  BY DEF EditsCount, ErrorHasCause, FailureHasCause
<1> QED BY <1>1, <1>2, NothingYet, CaptureTypeCorrect, TurnInductive, ReadOfRepoInductive,
           EditsInductive, PastInductive, CauseInductive, PTL DEF CaptureSpec

(***************************************************************************)
(* One moment.  A component never returns to a version it has had, so what *)
(* is read twice alike did not change between the two reads: the moment    *)
(* the first scan is done is the one a ChangeSet shows.                    *)
(***************************************************************************)

\* What the phase early has read of c still stands, or the phase late has read
\* it again.
Held(early, late, c) ==
    repo[c] = read[early][c] \/ read[late][c] = read[early][c]

\* The entries of the index are read between two fingerprints of it.
CollectIsBetween ==
    read["collect"][Index] # Unread /\ Held("before", "after", Index) =>
      read["collect"][Index] = read["before"][Index]

ScanDone == \A ph \in {"head", "before", "collect", "scan"} : Done(ph)

\* m has all that stood between the scans, and between the fingerprints.
Moment(m) ==
    /\ \A c \in ScannedParts : Held("scan", "rescan", c) => m[c] = read["scan"][c]
    /\ \A c \in Metadata : Held("before", "after", c) => m[c] = read["before"][c]

\* The author's repository was in such a state once the scan was done.
MomentWasThere == ScanDone => \E m \in moments : Moment(m)

HistoryInv == CaptureInv /\ InTurn /\ ReadsArePast

\* After an edit no more stands than before: what an edit writes is new.
LEMMA EditHoldsNoMore ==
    ASSUME HistoryInv, NEW cs \in EditSets, Edit(cs),
           NEW early \in Phases, NEW late \in Phases, NEW c \in Components,
           read[early][c] # Unread, Held(early, late, c)'
    PROVE  Held(early, late, c)
<1>1. read' = read
  BY DEF Edit, capture
<1>2. CASE repo'[c] = repo[c]
  BY <1>1, <1>2 DEF Held
<1>3. CASE repo'[c] # repo[c]
  <2>1. repo'[c] \notin past[c]
    BY <1>3 DEF Edit
  <2>2. read[early][c] \in past[c]
    BY DEF HistoryInv, ReadsArePast
  <2> QED BY <1>1, <2>1, <2>2 DEF Held
<1> QED BY <1>2, <1>3

\* A read of another phase holds no more either.
LEMMA ReadHoldsNoMore ==
    ASSUME HistoryInv, NEW x \in Phases, ReadStep(x),
           NEW early \in Phases, NEW late \in Phases, early # x,
           NEW c \in Components, Held(early, late, c)'
    PROVE  Held(early, late, c)
<1>1. Fills(x) /\ repo' = repo
  BY ReadEffect DEF HistoryInv, CaptureInv
<1> QED BY <1>1 DEF Fills, Held

\* The index is read between its fingerprints, whatever is edited.
LEMMA CollectInductive ==
    HistoryInv /\ CollectIsBetween /\ [CaptureNext]_captureVars => CollectIsBetween'
<1> SUFFICES ASSUME HistoryInv, CollectIsBetween, [CaptureNext]_captureVars
             PROVE  CollectIsBetween'
  OBVIOUS
<1>0. /\ CaptureTypeOK /\ InTurn
      /\ Index \in Components /\ Index \in Metadata /\ Metadata = Items["before"]
  BY ComponentKinds DEF HistoryInv, CaptureInv, Metadata, Items, Phases
<1>1. ASSUME read["collect"][Index] # Unread
      PROVE  read["before"][Index] # Unread
  <2>1. Done("before")
    BY <1>0, <1>1, EarlierDone, Ranks DEF Phases
  <2> QED BY <1>0, <2>1 DEF Done
<1>2. ASSUME UNCHANGED <<repo, read>>
      PROVE  CollectIsBetween'
  BY <1>2 DEF CollectIsBetween, Held
<1>3. ASSUME NEW cs \in EditSets, Edit(cs)
      PROVE  CollectIsBetween'
  <2>1. read' = read
    BY <1>3 DEF Edit, capture
  <2> QED BY <1>0, <1>1, <1>3, <2>1, EditHoldsNoMore DEF CollectIsBetween, Phases
<1>4. ASSUME NEW x \in Phases, ReadStep(x)
      PROVE  CollectIsBetween'
  <2>1. /\ At(x) /\ Fills(x) /\ repo' = repo
        /\ read \in [Phases -> [Components -> Values \cup {Unread}]]
    BY <1>0, <1>4, ReadEffect DEF CaptureTypeOK
  <2>2. CASE x = "before"
    <3>1. read["collect"][Index] = Unread
      BY <1>0, <2>1, <2>2, Ranks DEF InTurn, At, Phases
    <3> QED BY <1>0, <2>1, <2>2, <3>1 DEF Fills, CollectIsBetween, Phases
  <2>3. CASE x = "collect"
    <3>1. ~Done("collect")
      BY <2>1, <2>3 DEF At
    <3>2. read["after"][Index] = Unread
      BY <1>0, <3>1, Ranks DEF InTurn, Phases
    <3>3. /\ read'["after"] = read["after"] /\ read'["before"] = read["before"]
          /\ \/ read'["collect"][Index] = read["collect"][Index]
             \/ read'["collect"][Index] = repo[Index]
      BY <1>0, <2>1, <2>3 DEF Fills, Phases
    <3>4. Done("before")
      BY <2>1, <2>3, Ranks DEF At, Phases
    <3>5. read["before"][Index] # Unread
      BY <1>0, <3>4 DEF Done
    <3> QED BY <2>1, <3>2, <3>3, <3>5 DEF CollectIsBetween, Held
  <2>4. CASE x \notin {"before", "collect"}
    <3>1. read'["collect"] = read["collect"] /\ read'["before"] = read["before"]
      BY <2>1, <2>4 DEF Fills, Phases
    <3> QED BY <1>0, <1>4, <2>4, <3>1, ReadHoldsNoMore DEF CollectIsBetween, Phases
  <2> QED BY <2>2, <2>3, <2>4
<1>5. CASE Retry
  BY <1>0, <1>5 DEF Retry, NothingRead, CollectIsBetween, Phases
<1>6. CASE Return \/ GiveUp \/ Finished \/ UNCHANGED captureVars
  BY <1>2, <1>6 DEF Return, GiveUp, Finished, captureVars, capture
<1> QED BY <1>3, <1>4, <1>5, <1>6 DEF CaptureNext, CaptureStep

\* Once the scan is done its moment stays among the moments.
LEMMA MomentInductive ==
    HistoryInv /\ MomentWasThere /\ [CaptureNext]_captureVars => MomentWasThere'
<1> SUFFICES ASSUME HistoryInv, MomentWasThere, [CaptureNext]_captureVars
             PROVE  MomentWasThere'
  OBVIOUS
<1>0. /\ CaptureTypeOK /\ InTurn /\ repo \in moments
      /\ ScannedParts \subseteq Components /\ Metadata \subseteq Components
      /\ Items["scan"] = ScannedParts /\ Items["before"] = Metadata
      /\ {"head", "before", "collect", "scan", "after", "rescan"} \subseteq Phases
  BY ComponentKinds DEF HistoryInv, CaptureInv, Components, Items, Phases
<1>1. ASSUME UNCHANGED <<repo, moments, read>>
      PROVE  MomentWasThere'
  BY <1>1 DEF MomentWasThere, Moment, Held, ScanDone, Done
<1>2. ASSUME ScanDone
      PROVE  /\ \A c \in ScannedParts : read["scan"][c] # Unread
             /\ \A c \in Metadata : read["before"][c] # Unread
  BY <1>0, <1>2 DEF ScanDone, Done
<1>3. ASSUME NEW cs \in EditSets, Edit(cs)
      PROVE  MomentWasThere'
  <2>1. read' = read /\ moments \subseteq moments'
    BY <1>3 DEF Edit, capture
  <2> SUFFICES ASSUME ScanDone
               PROVE  \E m \in moments' : Moment(m)'
    BY <2>1 DEF MomentWasThere, ScanDone, Done
  <2>2. PICK m \in moments : Moment(m)
    BY DEF MomentWasThere
  <2>3. Moment(m)'
    BY <1>0, <1>2, <1>3, <2>1, <2>2, EditHoldsNoMore DEF Moment
  <2> QED BY <2>1, <2>2, <2>3
<1>4. ASSUME NEW x \in Phases, ReadStep(x)
      PROVE  MomentWasThere'
  <2>1. At(x) /\ Fills(x) /\ UNCHANGED <<repo, moments>>
    BY <1>0, <1>4, ReadEffect
  <2> SUFFICES ASSUME ScanDone'
               PROVE  \E m \in moments : Moment(m)'
    BY <2>1 DEF MomentWasThere
  <2>2. CASE ScanDone
    <3>1. PICK m \in moments : Moment(m)
      BY <2>2 DEF MomentWasThere
    <3>2. x # "scan" /\ x # "before"
      BY <2>1, <2>2 DEF At, ScanDone
    <3>3. read'["scan"] = read["scan"] /\ read'["before"] = read["before"]
      BY <1>0, <2>1, <3>2 DEF Fills
    <3>4. Moment(m)'
      BY <1>0, <1>4, <3>1, <3>2, <3>3, ReadHoldsNoMore DEF Moment
    <3> QED BY <3>1, <3>4
  <2>3. CASE ~ScanDone
    <3>1. PICK q \in {"head", "before", "collect", "scan"} : ~Done(q)
      BY <2>3 DEF ScanDone
    <3>2. Rank[q] < Rank["after"] /\ Rank[q] < Rank["rescan"] /\ q \in Phases
      BY <1>0, <3>1, Ranks
    <3>3. \A c \in Components : read["after"][c] = Unread /\ read["rescan"][c] = Unread
      BY <1>0, <3>1, <3>2 DEF InTurn
    <3>4. x # "after" /\ x # "rescan"
      BY <2>1, <3>1, <3>2 DEF At
    <3>5. \A c \in Components : read'["after"][c] = Unread /\ read'["rescan"][c] = Unread
      BY <1>0, <2>1, <3>3, <3>4 DEF Fills
    <3>6. /\ \A c \in ScannedParts : read'["scan"][c] # Unread
          /\ \A c \in Metadata : read'["before"][c] # Unread
      BY <1>0 DEF ScanDone, Done
    <3>7. Moment(repo)'
      BY <1>0, <2>1, <3>5, <3>6 DEF Moment, Held
    <3> QED BY <1>0, <2>1, <3>7
  <2> QED BY <2>2, <2>3
<1>5. CASE Retry
  <2>1. HEAD \in Items["head"] /\ HEAD \in Components /\ read'["head"][HEAD] = Unread
    BY <1>0, <1>5, ComponentKinds DEF Retry, NothingRead, Items
  <2>2. ~ScanDone'
    BY <2>1 DEF ScanDone, Done
  <2> QED BY <2>2 DEF MomentWasThere
<1>6. CASE Return \/ GiveUp \/ Finished \/ UNCHANGED captureVars
  BY <1>1, <1>6 DEF Return, GiveUp, Finished, captureVars, capture
<1> QED BY <1>3, <1>4, <1>5, <1>6 DEF CaptureNext, CaptureStep

\* What Return puts into the ChangeSet is the moment of the scan.
LEMMA ReturnedMoment ==
    ASSUME HistoryInv, CollectIsBetween, MomentWasThere, Return
    PROVE  \E m \in moments : \A c \in Metadata \cup ScannedParts : captured'[c] = m[c]
<1>0. /\ CaptureTypeOK
      /\ captured' = Data /\ AllRead /\ ~HeadMoved /\ Stable
      /\ Metadata = {HEAD, Index} /\ Index \in Components
      /\ Items["collect"] = {Index}
      /\ {"head", "before", "collect", "scan"} \subseteq Phases
  BY ComponentKinds DEF HistoryInv, CaptureInv, Return, Metadata, Items, Phases
<1>1. ScanDone /\ Done("before") /\ Done("collect")
  BY <1>0 DEF ScanDone, AllRead
<1>2. PICK m \in moments : Moment(m)
  BY <1>1 DEF MomentWasThere
<1>3. \A c \in ScannedParts : m[c] = read["scan"][c]
  BY <1>0, <1>2 DEF Moment, Held, Stable
<1>4. \A c \in Metadata : m[c] = read["before"][c]
  BY <1>0, <1>2 DEF Moment, Held, Stable
<1>5. m[HEAD] = read["head"][HEAD]
  BY <1>0, <1>1, <1>4 DEF HeadMoved
<1>6. m[Index] = read["collect"][Index]
  <2>1. read["collect"][Index] # Unread
    BY <1>0, <1>1 DEF Done
  <2>2. read["after"][Index] = read["before"][Index]
    BY <1>0 DEF Stable
  <2> QED BY <1>0, <1>4, <2>1, <2>2 DEF CollectIsBetween, Held
<1> QED BY <1>0, <1>2, <1>3, <1>5, <1>6, DataShape

\* What has been captured is not touched any more.
LEMMA OneMomentInductive ==
    HistoryInv /\ CollectIsBetween /\ MomentWasThere /\ ScannedDataIsOneMoment /\ [CaptureNext]_captureVars
      => ScannedDataIsOneMoment'
<1> SUFFICES ASSUME HistoryInv, CollectIsBetween, MomentWasThere, ScannedDataIsOneMoment,
                    [CaptureNext]_captureVars
             PROVE  ScannedDataIsOneMoment'
  OBVIOUS
<1>1. ASSUME NEW cs \in EditSets, Edit(cs)
      PROVE  ScannedDataIsOneMoment'
  BY <1>1 DEF Edit, capture, ScannedDataIsOneMoment
<1>2. ASSUME NEW x \in Phases, ReadStep(x)
      PROVE  ScannedDataIsOneMoment'
  <2>1. outcome' # "captured"
    BY <1>2, ReadEffect DEF HistoryInv, CaptureInv
  <2> QED BY <2>1 DEF ScannedDataIsOneMoment
<1>3. CASE Return
  <2>1. moments' = moments
    BY <1>3 DEF Return
  <2> QED BY <1>3, <2>1, ReturnedMoment DEF ScannedDataIsOneMoment
<1>4. CASE Retry \/ GiveUp
  BY <1>4 DEF Retry, GiveUp, Unstable, ScannedDataIsOneMoment
<1>5. CASE Finished \/ UNCHANGED captureVars
  BY <1>5 DEF Finished, captureVars, capture, ScannedDataIsOneMoment
<1> QED BY <1>1, <1>2, <1>3, <1>4, <1>5 DEF CaptureNext, CaptureStep

\* What a ChangeSet holds of the commit, the index and every scanned path was
\* all there at one moment of the attempt that read it, however many paths
\* there are and however the author's edits fall between the reads.
THEOREM CaptureIsOneMoment == CaptureSpec => []ScannedDataIsOneMoment
<1>1. CaptureInit => InTurn /\ ReadsArePast /\ CollectIsBetween /\ MomentWasThere
              /\ ScannedDataIsOneMoment
  <2> SUFFICES ASSUME CaptureInit
               PROVE  /\ ReadsArePast /\ CollectIsBetween /\ MomentWasThere
                      /\ ScannedDataIsOneMoment
    BY NothingYet
  <2>1. \A ph \in Phases : \A c \in Components : read[ph][c] = Unread
    BY DEF CaptureInit, NothingRead
  <2>2. ReadsArePast
    BY <2>1 DEF CaptureInit, ReadsArePast
  <2>3. CollectIsBetween
    BY <2>1, ComponentKinds DEF CollectIsBetween, Phases
  <2>4. ~Done("head")
    BY <2>1, ComponentKinds DEF Done, Items, Phases
  <2>5. MomentWasThere
    BY <2>4 DEF MomentWasThere, ScanDone
  <2> QED BY <2>2, <2>3, <2>5 DEF CaptureInit, ScannedDataIsOneMoment
<1> QED BY <1>1, CaptureTypeCorrect, TurnInductive, PastInductive, CollectInductive,
           MomentInductive, OneMomentInductive, PTL DEF CaptureSpec, HistoryInv

(***************************************************************************)
(* Progress.  A capture only ever fills slots and lists paths, and drops   *)
(* them once, for a second attempt that counts for more than all of them.  *)
(***************************************************************************)

Filled == {pc \in Phases \X Components : read[pc[1]][pc[2]] # Unread}

\* Four values are finitely many.
LEMMA FiniteFour == \A a, b, c, d : IsFiniteSet({a, b, c, d})
<1> TAKE a, b, c, d
<1>1. IsFiniteSet({a})
  BY FS_Singleton
<1>2. IsFiniteSet({a} \cup {b})
  BY <1>1, FS_AddElement
<1>3. IsFiniteSet(({a} \cup {b}) \cup {c})
  BY <1>2, FS_AddElement
<1>4. IsFiniteSet((({a} \cup {b}) \cup {c}) \cup {d})
  BY <1>3, FS_AddElement
<1>5. (({a} \cup {b}) \cup {c}) \cup {d} = {a, b, c, d}
  OBVIOUS
<1> QED BY <1>4, <1>5

\* Finitely many paths have finitely many slots.
LEMMA FinitelyManySlots == IsFiniteSet(Phases \X Components) /\ IsFiniteSet(Untracked)
<1>1. IsFiniteSet(Phases)
  <2>1. IsFiniteSet({"head", "before", "collect", "scan"})
    BY FiniteFour
  <2>2. IsFiniteSet({"ignored", "after", "rescan", "final"})
    BY FiniteFour
  <2>3. Phases = {"head", "before", "collect", "scan"}
                   \cup {"ignored", "after", "rescan", "final"}
    BY DEF Phases
  <2> QED BY <2>1, <2>2, <2>3, FS_Union
<1>2. IsFiniteSet({"head", "index", "content", "mode"})
  BY FiniteFour
<1>3. IsFiniteSet((Paths \cup {"git"}) \X {"head", "index", "content", "mode"})
  BY <1>2, CaptureConstants, FS_AddElement, FS_Product
<1>4. Components \subseteq (Paths \cup {"git"}) \X {"head", "index", "content", "mode"}
  BY DEF Components, Metadata, HEAD, Index, PathParts, Content, Mode
<1>5. IsFiniteSet(Components)
  BY <1>3, <1>4, FS_Subset
<1>6. IsFiniteSet(Untracked)
  BY CaptureConstants, FS_Subset DEF Paths, Scanned
<1> QED BY <1>1, <1>5, <1>6, FS_Product

\* What is filled and listed is counted, and bounded by the slots there are.
LEMMA Counts ==
    ASSUME CaptureTypeOK
    PROVE  /\ IsFiniteSet(Filled)
           /\ Cardinality(Filled) \in Nat
           /\ Cardinality(Filled) <= Cardinality(Phases \X Components)
           /\ \A q \in {"scan", "rescan"} :
                /\ IsFiniteSet(listed[q])
                /\ Cardinality(listed[q]) \in Nat
                /\ Cardinality(listed[q]) <= Cardinality(Untracked)
           /\ Cardinality(Phases \X Components) \in Nat
           /\ Cardinality(Untracked) \in Nat
<1>1. Filled \subseteq Phases \X Components
  BY DEF Filled
<1>2. \A q \in {"scan", "rescan"} : listed[q] \subseteq Untracked
  BY DEF CaptureTypeOK
<1> QED BY <1>1, <1>2, FinitelyManySlots, FS_Subset, FS_CardinalityType

\* An attempt is never further than all its slots.
LEMMA ProgressIsBounded ==
    ASSUME CaptureTypeOK
    PROVE  /\ Slots \in Nat /\ Progress \in Nat
           /\ attempt * (Slots + 1) <= Progress
           /\ Progress <= attempt * (Slots + 1) + Slots
           /\ Progress <= 2 * Slots + 1
<1> DEFINE f == Cardinality(Filled)
           a == Cardinality(listed["scan"])
           b == Cardinality(listed["rescan"])
           n == Cardinality(Phases \X Components)
           u == Cardinality(Untracked)
<1>1. /\ f \in Nat /\ a \in Nat /\ b \in Nat /\ n \in Nat /\ u \in Nat
      /\ f <= n /\ a <= u /\ b <= u
  BY Counts
<1>2. Slots = n + 2 * u /\ Progress = attempt * (Slots + 1) + f + a + b
  BY DEF Slots, Progress, Filled
<1> HIDE DEF f, a, b, n, u
<1>3. CASE attempt = 0
  BY <1>1, <1>2, <1>3
<1>4. CASE attempt = 1
  BY <1>1, <1>2, <1>4
<1> QED BY <1>3, <1>4 DEF CaptureTypeOK

\* A read that fills a slot or lists a path brings its attempt further.
LEMMA ReadsAdvance ==
    ASSUME CaptureTypeOK, CaptureTypeOK', NEW ph \in Phases, Fills(ph), Lists(ph),
           attempt' = attempt,
           (UNCHANGED read /\ ListsMore) \/ ReadsMore(ph)
    PROVE  Progress' > Progress
<1> DEFINE f == Cardinality(Filled)
           a == Cardinality(listed["scan"])
           b == Cardinality(listed["rescan"])
<1>0. /\ Progress = attempt * (Slots + 1) + f + a + b
      /\ Progress' = attempt * (Slots + 1) + f' + a' + b'
      /\ attempt * (Slots + 1) \in Nat
  BY ProgressIsBounded DEF Progress, Filled, Slots, CaptureTypeOK
<1>1. /\ f \in Nat /\ a \in Nat /\ b \in Nat
      /\ IsFiniteSet(Filled) /\ IsFiniteSet(listed["scan"]) /\ IsFiniteSet(listed["rescan"])
  BY Counts
<1>2. /\ f' \in Nat /\ a' \in Nat /\ b' \in Nat
      /\ IsFiniteSet(Filled') /\ IsFiniteSet(listed'["scan"]) /\ IsFiniteSet(listed'["rescan"])
  <2>1. IsFiniteSet(Phases \X Components) /\ IsFiniteSet(Untracked)
    BY FinitelyManySlots
  <2>2. /\ Filled' \subseteq Phases \X Components
        /\ listed'["scan"] \subseteq Untracked /\ listed'["rescan"] \subseteq Untracked
    BY DEF Filled, CaptureTypeOK
  <2> QED BY <2>1, <2>2, FS_Subset, FS_CardinalityType
<1>3. a <= a' /\ b <= b'
  <2>1. listed["scan"] \subseteq listed'["scan"] /\ listed["rescan"] \subseteq listed'["rescan"]
    BY DEF Lists
  <2> QED BY <1>2, <2>1, FS_Subset
<1>4. CASE UNCHANGED read /\ ListsMore
  <2>1. f' = f
    BY <1>4 DEF Filled
  <2>2. PICK p \in Untracked, q \in {"scan", "rescan"} :
          p \notin listed[q] /\ listed' = [listed EXCEPT ![q] = @ \cup {p}]
    BY <1>4 DEF ListsMore
  <2>3. listed'[q] = listed[q] \cup {p}
    BY <2>2 DEF CaptureTypeOK
  <2>4. Cardinality(listed'[q]) = Cardinality(listed[q]) + 1
    BY <1>1, <2>2, <2>3, FS_AddElement
  <2>5. a' = a + 1 \/ b' = b + 1
    BY <2>4
  <2> HIDE DEF f, a, b
  <2> QED BY <1>0, <1>1, <1>2, <1>3, <2>1, <2>5
<1>5. CASE ReadsMore(ph)
  <2>1. PICK c \in Components : read[ph][c] = Unread /\ read'[ph][c] # Unread
    BY <1>5 DEF ReadsMore
  <2>2. <<ph, c>> \notin Filled /\ <<ph, c>> \in Filled'
    BY <2>1 DEF Filled
  <2>3. ASSUME NEW q \in Phases, NEW d \in Components, read[q][d] # Unread
        PROVE  read'[q][d] # Unread
    <3>1. CASE q = ph
      BY <2>3, <3>1, RepoIsRead DEF Fills
    <3>2. CASE q # ph
      BY <2>3, <3>2 DEF Fills
    <3> QED BY <3>1, <3>2
  <2>4. Filled \cup {<<ph, c>>} \subseteq Filled'
    BY <2>2, <2>3 DEF Filled
  <2>5. Cardinality(Filled \cup {<<ph, c>>}) = f + 1
    BY <1>1, <2>2, FS_AddElement
  <2>6. f + 1 <= f'
    BY <1>2, <2>4, <2>5, FS_Subset
  <2> HIDE DEF f, a, b
  <2> QED BY <1>0, <1>1, <1>2, <1>3, <2>6
<1> QED BY <1>4, <1>5

\* However many paths there are and however long the author keeps editing,
\* each step of a capture ends it or brings it further, no edit brings it
\* back, and there is only so far to go.
THEOREM CapturesAdvance == CaptureSpec => CaptureAdvances
<1> DEFINE
      Advances ==
        /\ outcome = "running"
        /\ outcome' # "running" \/ Progress' > Progress
        /\ Progress' <= 2 * Slots + 1
      Bounds ==
        /\ Progress \in Nat
        /\ attempt * (Slots + 1) <= Progress
        /\ Progress <= 2 * Slots + 1
<1>0. CaptureTypeOK => Bounds
  BY ProgressIsBounded
<1> HIDE DEF Bounds
<1>1. CaptureTypeOK' => Bounds'
  BY <1>0, PTL
<1> USE DEF Bounds
<1>2. CaptureTypeOK /\ CaptureTypeOK' /\ [CaptureNext]_captureVars => [Advances]_capture
  <2> SUFFICES ASSUME CaptureTypeOK, CaptureTypeOK', CaptureNext, capture' # capture
               PROVE  Advances
    BY DEF captureVars, capture
  <2>1. Progress' <= 2 * Slots + 1
    BY <1>1 DEF Slots
  <2>2. ASSUME NEW cs \in EditSets, Edit(cs)
        PROVE  capture' = capture
    BY <2>2 DEF Edit, capture
  <2>3. ASSUME NEW ph \in Phases, ReadStep(ph)
        PROVE  outcome = "running" /\ (outcome' # "running" \/ Progress' > Progress)
    <3>1. outcome = "running"
      BY <2>3 DEF ReadStep, At
    <3> QED BY <2>3, <3>1, ReadEffect, ReadsAdvance
  <2>4. CASE Return \/ GiveUp
    BY <2>1, <2>4 DEF Return, GiveUp, Unstable
  <2>5. CASE Retry
    <3>1. outcome = "running" /\ attempt = 0 /\ attempt' = 1
      BY <2>5 DEF Retry, Unstable
    <3>2. attempt' * (Slots + 1) <= Progress'
      BY <1>1 DEF Slots
    <3>3. Slots \in Nat /\ Progress \in Nat /\ Progress <= attempt * (Slots + 1) + Slots
      BY ProgressIsBounded
    <3>4. Progress' \in Nat
      BY <1>1
    <3>5. Progress' > Progress
      BY <3>1, <3>2, <3>3, <3>4
    <3> QED BY <2>1, <3>1, <3>5
  <2>6. CASE Finished
    BY <2>1, <2>6 DEF Finished, captureVars, capture
  <2> QED BY <2>1, <2>2, <2>3, <2>4, <2>5, <2>6 DEF CaptureNext, CaptureStep
<1> QED BY <1>2, CaptureTypeCorrect, PTL DEF CaptureSpec, CaptureAdvances, CaptureInv

=============================================================================
