------------------------- MODULE PresenceFile_proofs -------------------------
(* Proofs about PresenceFile, for any set of sessions and any bounds.        *)
EXTENDS PresenceFile, FiniteSetTheorems, TLAPS

(***************************************************************************)
(* The inductive invariant.                                                *)
(***************************************************************************)

Live == {s \in Sessions : entries[s] # 0}

\* A copy of the map: no newer than the map, and the map itself when it has the
\* number of the map.
CopyOK(copy) ==
  /\ copy.listed <= generation
  /\ copy.listed = generation => copy.sessions = entries

\* A thread is under way only in a daemon that runs; what it has listed is a copy,
\* and the label it read afterwards is at least as new.
WriterOK(w) ==
  /\ pc[w] # "idle" => alive
  /\ pc[w] \in {"label", "replace"} => CopyOK(draft[w])
  /\ pc[w] = "replace" => /\ draft[w].listed <= draft[w].generation
                          /\ draft[w].generation <= generation

FileOK ==
  /\ file.epoch <= epoch
  /\ alive /\ file.epoch = epoch => /\ CopyOK(file)
                                    /\ file.listed <= file.generation
                                    /\ file.generation <= generation

\* A session can expire once for each activity noted of it.
GenerationsBounded ==
  IsFiniteSet(Live) /\ generation + Cardinality(Live) <= 2 * notes

IInv ==
  /\ TypeOK /\ FileOK /\ GenerationsBounded
  /\ \A w \in Writers : WriterOK(w)

MapMoves ==
  \/ generation' = generation /\ entries' = entries
  \/ generation' = generation + 1

(***************************************************************************)
(* Changes of the map.                                                     *)
(***************************************************************************)

\* Expiring moves the number whenever it moves the map.
LEMMA ExpireMoves ==
  ASSUME TypeOK, GenerationsBounded, Expire, notes' = notes
  PROVE  /\ generation' \in Nat /\ entries' \in [Sessions -> Nat]
         /\ \/ generation' = generation /\ entries' = entries
            \/ generation' = generation + 1
         /\ GenerationsBounded'
<1>1. PICK idle \in SUBSET Live :
        /\ entries' = [s \in Sessions |-> IF s \in idle THEN 0 ELSE entries[s]]
        /\ generation' = IF idle = {} THEN generation ELSE generation + 1
  BY DEF Expire, Live
<1>2. generation' \in Nat /\ entries' \in [Sessions -> Nat]
  BY <1>1 DEF TypeOK
<1>3. CASE idle = {}
  <2>1. generation' = generation /\ entries' = entries
    BY <1>1, <1>3 DEF TypeOK
  <2> QED
    BY <1>2, <2>1 DEF GenerationsBounded, Live
<1>4. CASE idle # {}
  <2>1. Live' = Live \ idle /\ Live' \in SUBSET Live /\ Live' # Live
    BY <1>1, <1>4 DEF Live, TypeOK
  <2>2. /\ IsFiniteSet(Live) /\ IsFiniteSet(Live')
        /\ Cardinality(Live') <= Cardinality(Live)
        /\ Cardinality(Live') # Cardinality(Live)
    BY <2>1, FS_Subset DEF GenerationsBounded
  <2>3. Cardinality(Live) \in Nat /\ Cardinality(Live') \in Nat
    BY <2>2, FS_CardinalityType
  <2>4. generation' = generation + 1
    BY <1>1, <1>4
  <2>5. generation' + Cardinality(Live') <= 2 * notes'
    <3>1. generation \in Nat /\ notes \in Nat /\ generation + Cardinality(Live) <= 2 * notes
      BY FileBounds DEF TypeOK, GenerationsBounded
    <3>2. \A g, n, c, d \in Nat : g + c <= 2 * n /\ d <= c /\ d # c => (g + 1) + d <= 2 * n
      OBVIOUS
    <3>3. (generation + 1) + Cardinality(Live') <= 2 * notes
      BY <2>2, <2>3, <3>1, <3>2
    <3> QED
      BY <2>4, <3>3
  <2> QED
    BY <1>2, <2>2, <2>4, <2>5 DEF GenerationsBounded
<1> QED
  BY <1>3, <1>4

\* An activity adds a generation, and one session at most that can expire.
LEMMA NoteMoves ==
  ASSUME TypeOK, GenerationsBounded, NEW s \in Sessions, NoteActivity(s)
  PROVE  /\ generation' = generation + 1 /\ entries' \in [Sessions -> Nat]
         /\ GenerationsBounded'
<1>1. generation' = generation + 1 /\ entries' = [entries EXCEPT ![s] = generation + 1] /\ notes' = notes + 1
  BY DEF NoteActivity
<1>2. entries' \in [Sessions -> Nat]
  BY <1>1 DEF TypeOK
<1>3. Live' = Live \cup {s}
  BY <1>1 DEF Live, TypeOK
<1>4. /\ IsFiniteSet(Live) /\ IsFiniteSet(Live')
      /\ Cardinality(Live') = IF s \in Live THEN Cardinality(Live) ELSE Cardinality(Live) + 1
  BY <1>3, FS_AddElement DEF GenerationsBounded
<1>5. Cardinality(Live) \in Nat /\ Cardinality(Live') \in Nat
  BY <1>4, FS_CardinalityType
<1>6. generation' + Cardinality(Live') <= 2 * notes'
  <2>1. generation \in Nat /\ notes \in Nat /\ generation + Cardinality(Live) <= 2 * notes
    BY FileBounds DEF TypeOK, GenerationsBounded
  <2>2. \A g, n, c, d \in Nat : g + c <= 2 * n /\ d <= c + 1 => (g + 1) + d <= 2 * (n + 1)
    OBVIOUS
  <2>3. Cardinality(Live') <= Cardinality(Live) + 1
    BY <1>4, <1>5
  <2>4. (generation + 1) + Cardinality(Live') <= 2 * (notes + 1)
    BY <1>5, <2>1, <2>2, <2>3
  <2> QED
    BY <1>1, <2>4
<1> QED
  BY <1>1, <1>2, <1>4, <1>6 DEF GenerationsBounded

(***************************************************************************)
(* The invariant.                                                          *)
(***************************************************************************)

LEMMA InitIInv == Init => IInv
<1> SUFFICES ASSUME Init PROVE IInv
  OBVIOUS
<1>1. TypeOK
  <2>1. 0 \in 0..MaxEpoch /\ 0 \in 0..MaxNotes
    BY FileBounds
  <2>2. Empty \in [Sessions -> Nat]
    BY DEF Empty
  <2>3. /\ NoDraft \in [generation : Nat, sessions : [Sessions -> Nat], listed : Nat]
        /\ NoFile \in [epoch : 0..MaxEpoch, generation : Nat, sessions : [Sessions -> Nat], listed : Nat]
    BY <2>1, <2>2 DEF NoDraft, NoFile, NoEpoch
  <2> QED
    BY <2>1, <2>2, <2>3 DEF Init, TypeOK, NoEpoch
<1>2. FileOK /\ \A w \in Writers : WriterOK(w)
  BY DEF Init, FileOK, WriterOK, NoFile, NoEpoch
<1>3. Live = {}
  BY DEF Init, Live, Empty
<1>4. GenerationsBounded
  BY <1>3, FS_EmptySet DEF Init, GenerationsBounded
<1> QED
  BY <1>1, <1>2, <1>4 DEF IInv

\* Every step keeps the types.
LEMMA StepKeepsType ==
  ASSUME IInv, [Next]_vars
  PROVE  TypeOK'
<1> USE DEF IInv
<1>0. \A w \in Writers, l \in {"idle", "expire", "list", "label", "replace"} :
        Goto(w, l) => pc' \in [Writers -> {"idle", "expire", "list", "label", "replace"}]
  BY DEF TypeOK, Goto
<1>w. "observer" \in Writers /\ "heartbeat" \in Writers
  BY DEF Writers
<1>1. CASE UNCHANGED vars
  BY <1>1 DEF vars, TypeOK
<1>2. CASE Start
  <2>1. epoch' \in 0..MaxEpoch
    BY <1>2, FileBounds DEF Start, TypeOK
  <2>2. entries' \in [Sessions -> Nat] /\ generation' \in Nat /\ alive' \in BOOLEAN
    BY <1>2 DEF Start, Empty
  <2> QED
    BY <1>0, <1>w, <1>2, <2>1, <2>2 DEF Start, TypeOK
<1>3. CASE Die
  BY <1>3 DEF Die, TypeOK, NoDraft, Empty
<1>4. CASE Heartbeat
  BY <1>0, <1>w, <1>4, ExpireMoves DEF Heartbeat, TypeOK
<1>5. ASSUME NEW s \in Sessions, NoteActivity(s) PROVE TypeOK'
  <2>1. notes' \in 0..MaxNotes
    BY <1>5, FileBounds DEF NoteActivity, TypeOK
  <2> QED
    BY <1>0, <1>w, <1>5, <2>1, NoteMoves DEF NoteActivity, TypeOK
<1>6. ASSUME NEW w \in Writers, WriterStep(w) PROVE TypeOK'
  <2>1. CASE SnapshotExpires(w)
    BY <1>0, <2>1, ExpireMoves DEF SnapshotExpires, TypeOK
  <2>2. CASE SnapshotLists(w)
    <3>1. draft' \in [Writers -> [generation : Nat, sessions : [Sessions -> Nat], listed : Nat]]
      <4> DEFINE R == [generation : Nat, sessions : [Sessions -> Nat], listed : Nat]
      <4>1. [draft EXCEPT ![w].sessions = entries] \in [Writers -> R]
        BY DEF TypeOK
      <4>2. \A d \in [Writers -> R] : [d EXCEPT ![w].listed = generation] \in [Writers -> R]
        BY DEF TypeOK
      <4>3. draft' = [[draft EXCEPT ![w].sessions = entries] EXCEPT ![w].listed = generation]
        BY <2>2 DEF SnapshotLists
      <4> HIDE DEF R
      <4>4. draft' \in [Writers -> R]
        BY <4>1, <4>2, <4>3
      <4> QED
        BY <4>4 DEF R
    <3> QED
      BY <1>0, <2>2, <3>1 DEF SnapshotLists, TypeOK
  <2>3. CASE SnapshotLabels(w)
    BY <1>0, <2>3 DEF SnapshotLabels, TypeOK
  <2>4. CASE ReplaceFile(w)
    <3>1. file' \in [epoch : 0..MaxEpoch, generation : Nat, sessions : [Sessions -> Nat], listed : Nat]
      BY <2>4 DEF ReplaceFile, TypeOK
    <3>2. draft' \in [Writers -> [generation : Nat, sessions : [Sessions -> Nat], listed : Nat]]
      BY <2>4 DEF ReplaceFile, TypeOK, NoDraft, Empty
    <3>3. generation' \in Nat /\ entries' \in [Sessions -> Nat]
      BY <2>4, ExpireMoves DEF ReplaceFile, TypeOK
    <3> QED
      BY <1>0, <2>4, <3>1, <3>2, <3>3 DEF ReplaceFile, TypeOK
  <2>5. CASE ReplaceFails(w)
    BY <1>0, <2>5 DEF ReplaceFails, TypeOK, NoDraft, Empty
  <2> QED
    BY <1>6, <2>1, <2>2, <2>3, <2>4, <2>5 DEF WriterStep
<1> QED
  BY <1>1, <1>2, <1>3, <1>4, <1>5, <1>6 DEF Next

\* A copy stays one: what the map holds changes only together with its number.
LEMMA CopyKept ==
  ASSUME TypeOK, MapMoves, NEW copy, NEW later,
         copy.listed \in Nat, CopyOK(copy),
         later.listed = copy.listed, later.sessions = copy.sessions
  PROVE  /\ later.listed <= generation'
         /\ later.listed = generation' => later.sessions = entries'
BY DEF TypeOK, MapMoves, CopyOK

\* What a thread has in hand survives what others do to the map,
LEMMA WriterKept ==
  ASSUME IInv, MapMoves, NEW w \in Writers, alive' = alive, pc'[w] = pc[w], draft'[w] = draft[w]
  PROVE  WriterOK(w)'
<1>1. draft[w].listed \in Nat /\ draft[w].generation \in Nat /\ generation \in Nat
  BY DEF IInv, TypeOK
<1>2. generation <= generation' /\ generation' \in Nat
  BY <1>1 DEF MapMoves
<1>3. pc[w] \in {"label", "replace"} => CopyOK(draft[w])'
  <2> SUFFICES ASSUME pc[w] \in {"label", "replace"} PROVE CopyOK(draft[w])'
    OBVIOUS
  <2>1. CopyOK(draft[w]) /\ TypeOK
    BY DEF IInv, WriterOK
  <2>2. /\ draft'[w].listed <= generation'
        /\ draft'[w].listed = generation' => draft'[w].sessions = entries'
    BY <1>1, <2>1, CopyKept
  <2> QED
    BY <2>2 DEF CopyOK
<1>4. pc[w] = "replace" => /\ draft'[w].listed <= draft'[w].generation
                           /\ draft'[w].generation <= generation'
  BY <1>1, <1>2 DEF IInv, WriterOK
<1> QED
  BY <1>3, <1>4 DEF IInv, WriterOK

\* and so does what is in the file.
LEMMA FileKept ==
  ASSUME IInv, MapMoves, alive' = alive, epoch' = epoch, file' = file
  PROVE  FileOK'
<1>1. /\ file.listed \in Nat /\ file.generation \in Nat /\ generation \in Nat /\ TypeOK
      /\ generation <= generation' /\ generation' \in Nat
  BY DEF IInv, TypeOK, MapMoves
<1> SUFFICES ASSUME alive, file.epoch = epoch
             PROVE  CopyOK(file)' /\ file.generation <= generation'
  BY DEF IInv, FileOK
<1>2. CopyOK(file) /\ file.generation <= generation
  BY DEF IInv, FileOK
<1>3. /\ file'.listed <= generation'
      /\ file'.listed = generation' => file'.sessions = entries'
  BY <1>1, <1>2, CopyKept
<1> QED
  BY <1>1, <1>2, <1>3 DEF CopyOK

\* A step of one thread that leaves the file alone.
LEMMA OneWriterIInv ==
  ASSUME IInv, TypeOK', GenerationsBounded', MapMoves, NEW w \in Writers,
         UNCHANGED <<alive, epoch, file>>,
         \A v \in Writers \ {w} : pc'[v] = pc[v] /\ draft'[v] = draft[v],
         WriterOK(w)'
  PROVE  IInv'
<1>1. \A v \in Writers : WriterOK(v)'
  BY WriterKept
<1> QED
  BY <1>1, FileKept DEF IInv

LEMMA StartIInv ==
  ASSUME IInv, TypeOK', Start
  PROVE  IInv'
<1>1. epoch \in Nat /\ file.epoch \in Nat /\ file.epoch <= epoch
  BY FileBounds DEF IInv, TypeOK, FileOK
<1>2. FileOK'
  BY <1>1 DEF Start, FileOK
<1>3. \A v \in Writers : pc[v] = "idle"
  BY DEF Start, IInv, WriterOK
<1>4. \A v \in Writers : WriterOK(v)'
  BY <1>3 DEF Start, Goto, WriterOK, Writers, IInv, TypeOK
<1>5. Live' = {}
  BY DEF Start, Live, Empty
<1>6. notes \in Nat /\ notes' = notes /\ generation' = 0
  BY FileBounds DEF Start, IInv, TypeOK
<1>7. GenerationsBounded'
  BY <1>5, <1>6, FS_EmptySet DEF GenerationsBounded
<1> QED
  BY <1>2, <1>4, <1>7 DEF IInv

LEMMA DieIInv ==
  ASSUME IInv, TypeOK', Die
  PROVE  IInv'
<1>1. FileOK'
  BY DEF Die, IInv, FileOK
<1>2. \A v \in Writers : WriterOK(v)'
  BY DEF Die, WriterOK
<1>3. GenerationsBounded'
  BY DEF Die, IInv, GenerationsBounded, Live
<1> QED
  BY <1>1, <1>2, <1>3 DEF IInv

\* The file gets a copy of the map, and its label.
LEMMA ReplaceIInv ==
  ASSUME IInv, TypeOK', NEW w \in Writers, ReplaceFile(w)
  PROVE  IInv'
<1>1. MapMoves /\ GenerationsBounded'
  <2>1. CASE Expire
    BY <2>1, ExpireMoves DEF ReplaceFile, IInv, MapMoves
  <2>2. CASE UNCHANGED <<generation, entries>>
    BY <2>2 DEF ReplaceFile, IInv, MapMoves, GenerationsBounded, Live
  <2> QED
    BY <2>1, <2>2 DEF ReplaceFile
<1>2. alive /\ CopyOK(draft[w]) /\ draft[w].listed <= draft[w].generation /\ draft[w].generation <= generation
  BY DEF ReplaceFile, IInv, WriterOK
<1>3. /\ draft[w].listed \in Nat /\ draft[w].generation \in Nat /\ generation \in Nat /\ TypeOK
      /\ generation <= generation' /\ generation' \in Nat
  BY <1>1 DEF IInv, TypeOK, MapMoves
<1>4. /\ file'.epoch = epoch /\ file'.generation = draft[w].generation
      /\ file'.listed = draft[w].listed /\ file'.sessions = draft[w].sessions
      /\ alive' = alive /\ epoch' = epoch
  BY DEF ReplaceFile
<1>5. FileOK'
  <2>1. /\ file'.listed <= generation'
        /\ file'.listed = generation' => file'.sessions = entries'
    BY <1>1, <1>2, <1>3, <1>4, CopyKept
  <2>2. epoch \in Nat
    BY FileBounds DEF IInv, TypeOK
  <2> QED
    BY <1>2, <1>3, <1>4, <2>1, <2>2 DEF FileOK, CopyOK
<1>6. WriterOK(w)'
  BY DEF ReplaceFile, Goto, WriterOK, IInv, TypeOK
<1>7. ASSUME NEW v \in Writers \ {w} PROVE WriterOK(v)'
  <2>1. pc'[v] = pc[v] /\ draft'[v] = draft[v]
    BY DEF ReplaceFile, Goto, IInv, TypeOK
  <2> QED
    BY <1>1, <1>4, <2>1, WriterKept
<1> QED
  BY <1>1, <1>5, <1>6, <1>7 DEF IInv

\* The map and the file are kept in order by every step.
LEMMA StepIInv ==
  ASSUME IInv, [Next]_vars
  PROVE  IInv'
<1>type. TypeOK'
  BY StepKeepsType
<1>w. "observer" \in Writers /\ "heartbeat" \in Writers
  BY DEF Writers
<1>same. ASSUME UNCHANGED <<generation, entries, notes>> PROVE MapMoves /\ GenerationsBounded'
  BY <1>same DEF IInv, MapMoves, GenerationsBounded, Live
<1>goto. ASSUME NEW w \in Writers, NEW l, Goto(w, l)
         PROVE  pc'[w] = l /\ \A v \in Writers \ {w} : pc'[v] = pc[v]
  BY <1>goto DEF Goto, IInv, TypeOK
<1>1. CASE UNCHANGED vars
  <2>1. \A v \in Writers : WriterOK(v)'
    BY <1>1, <1>same, WriterKept DEF vars
  <2> QED
    BY <1>1, <1>type, <1>same, <2>1, FileKept DEF vars, IInv
<1>2. CASE Start
  BY <1>2, <1>type, StartIInv
<1>3. CASE Die
  BY <1>3, <1>type, DieIInv
<1>4. CASE Heartbeat
  <2>1. MapMoves /\ GenerationsBounded'
    BY <1>4, ExpireMoves DEF Heartbeat, IInv, MapMoves
  <2>2. WriterOK("heartbeat")'
    BY <1>4, <1>w, <1>goto DEF Heartbeat, WriterOK
  <2> QED
    BY <1>4, <1>w, <1>type, <1>goto, <2>1, <2>2, OneWriterIInv DEF Heartbeat
<1>5. ASSUME NEW s \in Sessions, NoteActivity(s) PROVE IInv'
  <2>1. MapMoves /\ GenerationsBounded'
    BY <1>5, NoteMoves DEF IInv, MapMoves
  <2>2. WriterOK("observer")'
    BY <1>5, <1>w, <1>goto DEF NoteActivity, WriterOK
  <2> QED
    BY <1>5, <1>w, <1>type, <1>goto, <2>1, <2>2, OneWriterIInv DEF NoteActivity
<1>6. ASSUME NEW w \in Writers, SnapshotExpires(w) PROVE IInv'
  <2>1. MapMoves /\ GenerationsBounded'
    BY <1>6, ExpireMoves DEF SnapshotExpires, IInv, MapMoves
  <2>2. WriterOK(w)'
    BY <1>6, <1>goto DEF SnapshotExpires, WriterOK, IInv
  <2> QED
    BY <1>6, <1>type, <1>goto, <2>1, <2>2, OneWriterIInv DEF SnapshotExpires
<1>7. ASSUME NEW w \in Writers, SnapshotLists(w) PROVE IInv'
  <2>1. draft'[w].sessions = entries /\ draft'[w].listed = generation
    BY <1>7 DEF SnapshotLists, IInv, TypeOK
  <2>2. \A v \in Writers \ {w} : draft'[v] = draft[v]
    BY <1>7 DEF SnapshotLists, IInv, TypeOK
  <2>3. generation \in Nat
    BY DEF IInv, TypeOK
  <2>4. WriterOK(w)'
    BY <1>7, <1>goto, <2>1, <2>3 DEF SnapshotLists, WriterOK, CopyOK, IInv
  <2> QED
    BY <1>7, <1>type, <1>goto, <1>same, <2>2, <2>4, OneWriterIInv DEF SnapshotLists
<1>8. ASSUME NEW w \in Writers, SnapshotLabels(w) PROVE IInv'
  <2>1. /\ draft'[w].sessions = draft[w].sessions /\ draft'[w].listed = draft[w].listed
        /\ draft'[w].generation = generation
    BY <1>8 DEF SnapshotLabels, IInv, TypeOK
  <2>2. \A v \in Writers \ {w} : draft'[v] = draft[v]
    BY <1>8 DEF SnapshotLabels, IInv, TypeOK
  <2>3. generation \in Nat /\ alive /\ CopyOK(draft[w])
    BY <1>8 DEF SnapshotLabels, IInv, TypeOK, WriterOK
  <2>4. WriterOK(w)'
    BY <1>8, <1>goto, <2>1, <2>3 DEF SnapshotLabels, WriterOK, CopyOK
  <2> QED
    BY <1>8, <1>type, <1>goto, <1>same, <2>2, <2>4, OneWriterIInv DEF SnapshotLabels
<1>9. ASSUME NEW w \in Writers, ReplaceFails(w) PROVE IInv'
  <2>1. \A v \in Writers \ {w} : draft'[v] = draft[v]
    BY <1>9 DEF ReplaceFails, IInv, TypeOK
  <2>2. WriterOK(w)'
    BY <1>9, <1>goto DEF ReplaceFails, WriterOK
  <2> QED
    BY <1>9, <1>type, <1>goto, <1>same, <2>1, <2>2, OneWriterIInv DEF ReplaceFails
<1>10. ASSUME NEW w \in Writers, ReplaceFile(w) PROVE IInv'
  BY <1>10, <1>type, ReplaceIInv
<1> QED
  BY <1>1, <1>2, <1>3, <1>4, <1>5, <1>6, <1>7, <1>8, <1>9, <1>10 DEF Next, WriterStep

\* The map, the copies that threads have in hand, and the file agree as they should.
THEOREM Invariance == Spec => []IInv
  BY InitIInv, StepIInv, PTL DEF Spec

\* In one life of the daemon a generation number stands for one content of the map.
THEOREM NumbersMeanContents == Spec => []NumberMeansContent
<1>1. IInv => NumberMeansContent
  BY DEF IInv, FileOK, WriterOK, CopyOK, NumberMeansContent
<1> QED
  BY <1>1, Invariance, PTL

(***************************************************************************)
(* The refinement.                                                         *)
(***************************************************************************)

\* The map can always move as far as it has activities to account for.
LEMMA GenerationInBounds ==
  ASSUME TypeOK', GenerationsBounded'
  PROVE  generation' <= 2 * MaxNotes
<1>1. Cardinality(Live') \in Nat /\ generation' + Cardinality(Live') <= 2 * notes'
  BY FS_CardinalityType DEF GenerationsBounded
<1>2. generation' \in Nat /\ notes' \in Nat /\ MaxNotes \in Nat /\ notes' <= MaxNotes
  BY FileBounds DEF TypeOK
<1>3. \A g, c, n, m \in Nat : g + c <= 2 * n /\ n <= m => g <= 2 * m
  OBVIOUS
<1> QED
  BY <1>1, <1>2, <1>3

\* A step that moves the map at most, and leaves the file.
LEMMA MoveIsChange ==
  ASSUME IInv, IInv', MapMoves, alive, UNCHANGED <<alive, epoch, file>>
  PROVE  [Log!LogNext]_(Log!log)
<1>1. CASE generation' = generation
  BY <1>1 DEF Log!log
<1>2. CASE generation' = generation + 1
  <2>1. generation < 2 * MaxNotes
    <3>1. generation' <= 2 * MaxNotes
      BY GenerationInBounds DEF IInv
    <3> QED
      BY <1>2, <3>1, FileBounds DEF IInv, TypeOK
  <2>2. Log!LogChange
    BY <1>2, <2>1 DEF Log!LogChange
  <2> QED
    BY <2>2 DEF Log!LogNext
<1> QED
  BY <1>1, <1>2 DEF MapMoves

\* Replacing the file writes a copy that is no newer than its label.
LEMMA ReplaceIsWrite ==
  ASSUME IInv, IInv', NEW w \in Writers, ReplaceFile(w)
  PROVE  Log!LogNext
<1>1. /\ alive /\ draft[w].listed <= draft[w].generation /\ draft[w].generation <= generation
      /\ draft[w].listed \in Nat /\ draft[w].generation \in Nat /\ generation \in Nat
  BY DEF ReplaceFile, IInv, TypeOK, WriterOK
<1>2. draft[w].generation \in 0..generation /\ draft[w].listed \in 0..generation
  BY <1>1
<1>3. /\ [epoch |-> file'.epoch, generation |-> file'.generation, listed |-> file'.listed]
           = [epoch |-> epoch, generation |-> draft[w].generation, listed |-> draft[w].listed]
      /\ alive' = alive /\ epoch' = epoch
  BY DEF ReplaceFile
<1>4. MapMoves
  BY ExpireMoves DEF ReplaceFile, IInv, MapMoves
<1>5. CASE generation' = generation
  <2>1. Log!LogWrite
    BY <1>1, <1>2, <1>3, <1>5 DEF Log!LogWrite
  <2> QED
    BY <2>1 DEF Log!LogNext
<1>6. CASE generation' = generation + 1
  <2>1. generation < 2 * MaxNotes
    <3>1. generation' <= 2 * MaxNotes
      BY GenerationInBounds DEF IInv
    <3> QED
      BY <1>1, <1>6, <3>1, FileBounds
  <2>2. Log!LogWriteAndChange
    BY <1>1, <1>2, <1>3, <1>6, <2>1 DEF Log!LogWriteAndChange
  <2> QED
    BY <2>2 DEF Log!LogNext
<1> QED
  BY <1>4, <1>5, <1>6 DEF MapMoves

LEMMA StepWritesLog ==
  ASSUME IInv, IInv', [Next]_vars
  PROVE  [Log!LogNext]_(Log!log)
<1>1. CASE UNCHANGED vars
  BY <1>1 DEF vars, Log!log
<1>2. CASE Start
  BY <1>2 DEF Start, Log!LogNext, Log!LogStart
<1>3. CASE Die
  BY <1>3 DEF Die, Log!LogNext, Log!LogDie
<1>4. CASE Heartbeat
  BY <1>4, ExpireMoves, MoveIsChange DEF Heartbeat, IInv, MapMoves
<1>5. ASSUME NEW s \in Sessions, NoteActivity(s) PROVE [Log!LogNext]_(Log!log)
  BY <1>5, NoteMoves, MoveIsChange DEF NoteActivity, IInv, MapMoves
<1>6. ASSUME NEW w \in Writers, SnapshotExpires(w) PROVE [Log!LogNext]_(Log!log)
  BY <1>6, ExpireMoves, MoveIsChange DEF SnapshotExpires, IInv, WriterOK, MapMoves
<1>7. ASSUME NEW w \in Writers, SnapshotLists(w) \/ SnapshotLabels(w) \/ ReplaceFails(w)
      PROVE  [Log!LogNext]_(Log!log)
  BY <1>7 DEF SnapshotLists, SnapshotLabels, ReplaceFails, Log!log
<1>8. ASSUME NEW w \in Writers, ReplaceFile(w) PROVE [Log!LogNext]_(Log!log)
  BY <1>8, ReplaceIsWrite
<1> QED
  BY <1>1, <1>2, <1>3, <1>4, <1>5, <1>6, <1>7, <1>8 DEF Next, WriterStep

\* Whatever overwrites what, the file holds a copy of a numbered state of the running
\* daemon or of an earlier one, no newer than its label.
THEOREM Refinement == Spec => LabelsAreRight
<1>1. Init => Log!LogInit
  BY DEF Init, NoFile, NoEpoch, Log!LogInit, Log!NoEpoch
<1>2. IInv /\ IInv' /\ [Next]_vars => [Log!LogNext]_(Log!log)
  BY StepWritesLog
<1> QED
  BY <1>1, <1>2, Invariance, PTL DEF Spec, LabelsAreRight, Log!LogSpec
=============================================================================
