------------------------ MODULE WindowLayers_proofs ------------------------
(* Proofs about WindowLayers, for any texts, sessions, derives, runs and     *)
(* bounds: no verdict is lost, and labels are linked where their text is.    *)
EXTENDS WindowLayers, FiniteSetTheorems, TLAPS

(***************************************************************************)
(* The inductive invariant.                                                *)
(***************************************************************************)
Identifier == Contents \X Nat
Label == [by : Labellers, asked : Identifier, window : Identifier, hash : Identifier,
          status : {"linked", "orphaned"}]
Answers == [phase : {"asked", "read"}, by : Labellers, window : Identifier,
            hash : Identifier \cup {<<>>}, status : {"linked", "orphaned"}]

Types ==
  /\ turns \in Seq(Contents)
  /\ labels \in SUBSET Label
  /\ writing \in Answers \cup {Nothing}

\* What a label goes by, its window and its hash, names the text it was asked about.
SameText(l) == HashOf(l.window) = HashOf(l.asked) /\ HashOf(l.hash) = HashOf(l.asked)

\* So does an answer that is about to be stored.
AnswerNames == writing.phase = "read" =>
                 writing.hash \in Identifier /\ HashOf(writing.hash) = HashOf(writing.window)

IInv == Types /\ AnswerNames /\ \A l \in labels : SameText(l)

(***************************************************************************)
(* Windows have identifiers.                                               *)
(***************************************************************************)
LEMMA WindowsTyped ==
  ASSUME NEW t \in Seq(Contents)
  PROVE  WindowsOf(t) \subseteq Identifier
<1> SUFFICES ASSUME NEW i \in DOMAIN t PROVE WindowId(t, i) \in Identifier
  BY DEF WindowsOf
<1> DEFINE S == {j \in 1..(i - 1) : t[j] = t[i]}
<1>1. i \in Nat /\ t[i] \in Contents
  OBVIOUS
<1>2. IsFiniteSet(1..(i - 1))
  BY <1>1, FS_Interval
<1>3. IsFiniteSet(S)
  BY <1>2, FS_Subset
<1>4. Cardinality(S) \in Nat
  BY <1>3, FS_CardinalityType
<1> HIDE DEF S
<1>5. <<t[i], Cardinality(S)>> \in Identifier
  BY <1>1, <1>4 DEF Identifier
<1> QED
  BY <1>5 DEF WindowId, S

LEMMA HashTyped ==
  ASSUME NEW w \in Identifier
  PROVE  HashOf(w) \in Identifier /\ HashOf(HashOf(w)) = HashOf(w)
BY DEF Identifier, HashOf

(***************************************************************************)
(* What refreshing does to one label.                                      *)
(***************************************************************************)
OrphanOne(l, live) ==
  IF l.status = "linked" /\ l.window \notin live THEN [l EXCEPT !.status = "orphaned"] ELSE l
RelinkOne(l, live, pick) ==
  IF l.hash \in DOMAIN pick /\ (l.status = "orphaned" \/ l.window \notin live)
  THEN [l EXCEPT !.window = pick[l.hash], !.status = "linked"] ELSE l
LinkedOne(l, live) == IF l.window \in live THEN [l EXCEPT !.status = "linked"] ELSE l
RefreshOne(l, live, pick) == LinkedOne(RelinkOne(OrphanOne(l, live), live, pick), live)

\* Labels are refreshed one by one; none appears, none goes.
LEMMA OneByOne ==
  ASSUME NEW L, NEW live, NEW pick
  PROVE  Refresh(L, live, pick) = {RefreshOne(l, live, pick) : l \in L}
<1> DEFINE A == Orphan(L, live)
           B == Relink(A, live, pick)
<1>1. A = {OrphanOne(l, live) : l \in L}
  BY DEF Orphan, OrphanOne
<1>2. B = {RelinkOne(l, live, pick) : l \in A}
  BY DEF Relink, RelinkOne
<1>3. Refresh(L, live, pick) = {LinkedOne(l, live) : l \in B}
  BY DEF Refresh, Linked, LinkedOne
<1> HIDE DEF A, B
<1>4. B = {RelinkOne(OrphanOne(l, live), live, pick) : l \in L}
  BY <1>1, <1>2
<1> QED
  BY <1>3, <1>4 DEF RefreshOne

\* A refreshed label is about what it was about, and is linked exactly where its
\* text is.
LEMMA Refreshed ==
  ASSUME NEW l \in Label, SameText(l), NEW live \in SUBSET Identifier, NEW pick \in Picks(live)
  PROVE  LET k == RefreshOne(l, live, pick) IN
         /\ k \in Label /\ k.by = l.by /\ k.asked = l.asked /\ SameText(k)
         /\ k.status = "linked" <=> \E w \in live : w = k.window \/ HashOf(w) = k.hash
         /\ k.status = "linked" => k.window \in live
<1> DEFINE a == OrphanOne(l, live)
           b == RelinkOne(a, live, pick)
           k == LinkedOne(b, live)
<1>1. /\ DOMAIN pick = {HashOf(w) : w \in live}
      /\ \A h \in DOMAIN pick : pick[h] \in live /\ HashOf(pick[h]) = h
  BY DEF Picks
<1>2. /\ a \in Label /\ a.by = l.by /\ a.asked = l.asked /\ a.window = l.window /\ a.hash = l.hash
      /\ a.status = "linked" => a.window \in live
  BY DEF OrphanOne, Label
<1>3. \A h \in DOMAIN pick : HashOf(h) = h
  BY <1>1, HashTyped
<1>4. /\ b \in Label /\ b.by = l.by /\ b.asked = l.asked /\ b.hash = l.hash
      /\ b.hash \in DOMAIN pick => b.window \in live
      /\ b.status = "linked" => b.window \in live
      /\ b.window = l.window \/ (b.hash \in DOMAIN pick /\ b.window = pick[b.hash])
  <2> HIDE DEF a
  <2>1. CASE a.hash \in DOMAIN pick /\ (a.status = "orphaned" \/ a.window \notin live)
    <3> DEFINE p == pick[a.hash]
    <3>1. p \in Identifier /\ p \in live
      BY <1>1, <2>1
    <3>2. b = [a EXCEPT !.window = p, !.status = "linked"]
      BY <2>1 DEF RelinkOne
    <3> HIDE DEF b, p
    <3>3. /\ b \in Label /\ b.by = a.by /\ b.asked = a.asked /\ b.hash = a.hash
          /\ b.window = p
      BY <1>2, <3>1, <3>2 DEF Label
    <3> QED
      BY <1>2, <2>1, <3>1, <3>3 DEF p
  <2>2. CASE ~(a.hash \in DOMAIN pick /\ (a.status = "orphaned" \/ a.window \notin live))
    <3>1. b = a
      BY <2>2 DEF RelinkOne
    <3>2. a.status \in {"linked", "orphaned"}
      BY <1>2 DEF Label
    <3> HIDE DEF b
    <3> QED
      BY <1>2, <2>2, <3>1, <3>2
  <2> QED
    BY <2>1, <2>2
<1>5. HashOf(b.window) = HashOf(b.asked) /\ HashOf(b.hash) = HashOf(b.asked)
  <2> HIDE DEF b
  <2> QED
    BY <1>1, <1>3, <1>4 DEF SameText
<1>6. /\ k \in Label /\ k.by = l.by /\ k.asked = l.asked /\ k.hash = b.hash /\ k.window = b.window
      /\ k.status = "linked" <=> k.window \in live
  <2> HIDE DEF b
  <2> QED
    BY <1>4 DEF LinkedOne, Label
<1>7. (\E w \in live : w = k.window \/ HashOf(w) = k.hash) => k.window \in live
  <2> HIDE DEF b, k
  <2> QED
    BY <1>1, <1>4, <1>6
<1>8. SameText(k)
  <2> HIDE DEF b, k
  <2> QED
    BY <1>4, <1>5, <1>6 DEF SameText
<1> HIDE DEF k
<1>9. RefreshOne(l, live, pick) = k
  BY DEF RefreshOne, k
<1> QED
  BY <1>6, <1>7, <1>8, <1>9

(***************************************************************************)
(* An ingest refreshes every label.                                        *)
(***************************************************************************)
LEMMA ReplaceRefreshes ==
  ASSUME IInv, NEW new \in Seq(Contents), NEW kept, Replace(new, kept)
  PROVE  /\ turns' = new /\ writing' = writing
         /\ \E pick \in Picks(WindowsOf(new)) :
              labels' = {RefreshOne(l, WindowsOf(new), pick) : l \in labels}
BY OneByOne DEF Replace

LEMMA IngestTyped ==
  ASSUME IInv, AppendTurn \/ Extend \/ Upgrade
  PROVE  \E new \in Seq(Contents) : \E kept : Replace(new, kept) /\ kept \subseteq DOMAIN classes
<1>1. CASE AppendTurn
  <2>1. PICK c \in Contents : Replace(Append(turns, c), DOMAIN classes)
    BY <1>1 DEF AppendTurn
  <2>2. Append(turns, c) \in Seq(Contents)
    BY DEF IInv, Types
  <2> QED
    BY <2>1, <2>2
<1>2. CASE Extend
  BY <1>2 DEF Extend, IInv, Types
<1>3. CASE Upgrade
  <2>1. PICK n \in 0..MaxLen : \E new \in [1..n -> Contents] : Replace(new, {})
    BY <1>3 DEF Upgrade
  <2>2. PICK new \in [1..n -> Contents] : Replace(new, {})
    BY <2>1
  <2>3. n \in Nat
    BY <2>1
  <2>4. new \in Seq(Contents)
    BY <2>2, <2>3
  <2> QED
    BY <2>2, <2>4
<1> QED
  BY <1>1, <1>2, <1>3

LEMMA IngestIInv ==
  ASSUME IInv, AppendTurn \/ Extend \/ Upgrade
  PROVE  IInv'
<1>1. PICK new \in Seq(Contents) : \E kept : Replace(new, kept)
  BY IngestTyped
<1>2. /\ turns' = new /\ writing' = writing
      /\ \E pick \in Picks(WindowsOf(new)) :
           labels' = {RefreshOne(l, WindowsOf(new), pick) : l \in labels}
  BY <1>1, ReplaceRefreshes
<1>3. PICK pick \in Picks(WindowsOf(new)) :
        labels' = {RefreshOne(l, WindowsOf(new), pick) : l \in labels}
  BY <1>2
<1>4. \A l \in labels : LET k == RefreshOne(l, WindowsOf(new), pick) IN
        k \in Label /\ SameText(k)
  BY WindowsTyped, Refreshed DEF IInv, Types
<1>5. labels' \in SUBSET Label /\ \A k \in labels' : SameText(k)
  BY <1>3, <1>4
<1> QED
  BY <1>2, <1>5 DEF IInv, Types, AnswerNames, SameText

(***************************************************************************)
(* A label is stored.                                                      *)
(***************************************************************************)
LEMMA AskIInv ==
  ASSUME IInv, NEW by \in Labellers, NEW w \in Windows, Ask(by, w)
  PROVE  IInv'
<1>1. w \in Identifier
  BY WindowsTyped DEF IInv, Types, Windows
<1>2. writing' = [Nothing EXCEPT !.phase = "asked", !.by = by, !.window = w]
  BY DEF Ask
<1>3. /\ writing' \in Answers /\ writing'.phase = "asked"
  BY <1>1, <1>2 DEF Nothing, Answers
<1> QED
  BY <1>3 DEF Ask, session, IInv, Types, AnswerNames

LEMMA AnswerIInv ==
  ASSUME IInv, Answer
  PROVE  IInv'
<1> DEFINE live == writing.window \in Windows
           h == IF live THEN HashOf(writing.window) ELSE writing.window
           s == IF live THEN "linked" ELSE "orphaned"
<1>1. writing.phase = "asked"
  BY DEF Answer
<1>2. writing \in Answers
  BY <1>1 DEF IInv, Types, Nothing
<1>3. h \in Identifier /\ HashOf(h) = HashOf(writing.window)
  BY <1>2, HashTyped DEF Answers
<1>4. s \in {"linked", "orphaned"}
  OBVIOUS
<1>5. \/ writing' = [writing EXCEPT !.phase = "read", !.hash = h, !.status = s]
      \/ writing' = Nothing
  BY DEF Answer
<1> HIDE DEF h, s
<1>6. CASE writing' = [writing EXCEPT !.phase = "read", !.hash = h, !.status = s]
  <2>1. /\ writing' \in Answers
        /\ writing'.hash = h /\ writing'.window = writing.window
    BY <1>2, <1>3, <1>4, <1>6 DEF Answers
  <2> QED
    BY <1>3, <2>1 DEF Answer, session, IInv, Types, AnswerNames
<1>7. CASE writing' = Nothing
  <2>1. writing'.phase = "none"
    BY <1>7 DEF Nothing
  <2> QED
    BY <1>7, <2>1 DEF Answer, session, IInv, Types, AnswerNames
<1> QED
  BY <1>5, <1>6, <1>7

\* The row that an insert stores.
Row == [by |-> writing.by, asked |-> writing.window, window |-> writing.window,
        hash |-> writing.hash, status |-> writing.status]

LEMMA InsertRow ==
  ASSUME IInv, Insert
  PROVE  /\ labels' = {l \in labels : ~ Replaced(l)} \cup {Row}
         /\ Row \in Label /\ SameText(Row)
<1>1. writing.phase = "read" /\ writing \in Answers
  BY DEF Insert, IInv, Types, Nothing
<1>2. writing.hash \in Identifier /\ HashOf(writing.hash) = HashOf(writing.window)
  BY <1>1 DEF IInv, AnswerNames
<1>3. Row \in Label
  BY <1>1, <1>2 DEF Row, Label, Answers
<1>4. SameText(Row)
  BY <1>2 DEF SameText, Row
<1> QED
  BY <1>3, <1>4 DEF Insert, Row

LEMMA InsertIInv ==
  ASSUME IInv, Insert
  PROVE  IInv'
<1>1. \A k \in labels' : k \in Label /\ SameText(k)
  BY InsertRow DEF IInv, Types
<1>2. writing' = Nothing /\ turns' = turns
  BY DEF Insert, session
<1> QED
  BY <1>1, <1>2 DEF IInv, Types, AnswerNames, SameText, Nothing

LEMMA InitIInv == Init => IInv
<1> SUFFICES ASSUME Init PROVE IInv
  OBVIOUS
<1>1. turns \in Seq(Contents)
  <2>1. turns \in [1..1 -> Contents]
    BY DEF Init
  <2>2. ASSUME NEW n \in Nat PROVE [1..n -> Contents] \subseteq Seq(Contents)
    OBVIOUS
  <2> QED
    BY <2>1, <2>2
<1>2. writing = Nothing /\ labels = {}
  BY DEF Init
<1>3. Nothing.phase = "none"
  BY DEF Nothing
<1> QED
  BY <1>1, <1>2, <1>3 DEF IInv, Types, AnswerNames

\* The derives touch neither sessions nor labels.
LEMMA DeriveStutters ==
  ASSUME NEW d \in Derivers,
         \/ \E chosen \in SUBSET Windows, force \in BOOLEAN : Look(d, chosen, force)
         \/ Load(d) \/ GiveUp(d) \/ Check(d) \/ Classify(d) \/ Mark(d)
  PROVE  UNCHANGED <<turns, labels, writing, changes>>
BY DEF Look, Load, GiveUp, Check, Classify, Mark, session

LEMMA StepIInv ==
  ASSUME IInv, [Next]_vars
  PROVE  IInv'
<1>1. ASSUME UNCHANGED <<turns, labels, writing>> PROVE IInv'
  BY <1>1 DEF IInv, Types, AnswerNames, SameText
<1>2. CASE UNCHANGED vars
  BY <1>1, <1>2 DEF vars, session
<1> QED
  BY <1>1, <1>2, IngestIInv, AskIInv, AnswerIInv, InsertIInv, DeriveStutters DEF Next

\* A label's window and hash always name the text it was asked about.
THEOREM Invariance == Spec => []IInv
  BY InitIInv, StepIInv, PTL DEF Spec

(***************************************************************************)
(* What the steps do to labels.                                            *)
(***************************************************************************)

\* No ingest and no answer of another takes a verdict on a text away.
THEOREM VerdictsStay == Spec => LabelsSurvive
<1>1. ASSUME IInv, [Next]_vars
      PROVE  [\A l \in labels : \E k \in labels' : k.by = l.by /\ HashOf(k.asked) = HashOf(l.asked)]_vars
  <2> SUFFICES ASSUME NEW l \in labels
               PROVE  \E k \in labels' : k.by = l.by /\ HashOf(k.asked) = HashOf(l.asked)
    OBVIOUS
  <2>1. l \in Label /\ SameText(l)
    BY <1>1 DEF IInv, Types
  <2>2. CASE AppendTurn \/ Extend \/ Upgrade
    <3>1. PICK new \in Seq(Contents) : \E kept : Replace(new, kept)
      BY <1>1, <2>2, IngestTyped
    <3>2. PICK pick \in Picks(WindowsOf(new)) :
            labels' = {RefreshOne(j, WindowsOf(new), pick) : j \in labels}
      BY <1>1, <3>1, ReplaceRefreshes
    <3> DEFINE k == RefreshOne(l, WindowsOf(new), pick)
    <3>3. k \in labels'
      BY <3>2
    <3>4. k.by = l.by /\ k.asked = l.asked
      BY <2>1, WindowsTyped, Refreshed
    <3> QED
      BY <3>3, <3>4
  <2>3. CASE Insert
    <3>1. labels' = {j \in labels : ~ Replaced(j)} \cup {Row}
      BY <1>1, <2>3, InsertRow
    <3>2. CASE Replaced(l)
      <4>1. Row.by = l.by /\ HashOf(Row.asked) = HashOf(l.asked)
        BY <2>1, <3>2 DEF Replaced, Row, SameText
      <4> QED
        BY <3>1, <4>1
    <3>3. CASE ~ Replaced(l)
      BY <3>1, <3>3
    <3> QED
      BY <3>2, <3>3
  <2>4. CASE labels' = labels
    BY <2>4
  <2> QED
    BY <1>1, <2>2, <2>3, <2>4, DeriveStutters DEF Next, Ask, Answer, vars
<1> QED
  BY <1>1, Invariance, PTL DEF Spec, LabelsSurvive

\* After every ingest a label is linked exactly when its text is there, and to a window
\* with its text, also if its window went between the look and the insert.
THEOREM LinksFollowTexts == Spec => LinksSettle
<1>1. ASSUME IInv, [Next]_vars, turns' # turns \/ changes' # changes
      PROVE  (\A l \in labels :
                /\ l.status = "linked" <=> \E w \in Windows : w = l.window \/ HashOf(w) = l.hash
                /\ l.status = "linked" => l.window \in Windows /\ HashOf(l.window) = HashOf(l.asked))'
  <2>1. AppendTurn \/ Extend \/ Upgrade
    BY <1>1, DeriveStutters DEF Next, Ask, Answer, Insert, session, vars
  <2>2. PICK new \in Seq(Contents) : \E kept : Replace(new, kept)
    BY <1>1, <2>1, IngestTyped
  <2> DEFINE live == WindowsOf(new)
  <2>3. turns' = new /\ live \in SUBSET Identifier
    BY <1>1, <2>2, ReplaceRefreshes, WindowsTyped
  <2>4. PICK pick \in Picks(live) : labels' = {RefreshOne(l, live, pick) : l \in labels}
    BY <1>1, <2>2, ReplaceRefreshes
  <2> HIDE DEF live
  <2>5. ASSUME NEW l \in labels
        PROVE  LET k == RefreshOne(l, live, pick) IN
               /\ k.status = "linked" <=> \E w \in live : w = k.window \/ HashOf(w) = k.hash
               /\ k.status = "linked" => k.window \in live /\ HashOf(k.window) = HashOf(k.asked)
    BY <1>1, <2>3, <2>4, Refreshed DEF IInv, Types, SameText
  <2>6. \A k \in labels' :
          /\ k.status = "linked" <=> \E w \in live : w = k.window \/ HashOf(w) = k.hash
          /\ k.status = "linked" => k.window \in live /\ HashOf(k.window) = HashOf(k.asked)
    BY <2>4, <2>5
  <2>7. Windows' = live
    BY <2>3 DEF Windows, live
  <2> QED
    BY <2>6, <2>7 DEF HashOf
<1> QED
  BY <1>1, Invariance, PTL DEF Spec, LinksSettle

(***************************************************************************)
(* What is fresh.  With one deriver at a time: two of them may leave a     *)
(* watermark of classifications that neither has made.                     *)
(***************************************************************************)
Stamp == Seq(Contents) \X Extras
Phase == {"idle", "load", "check", "write", "mark"}
Derive == [phase : Phase, expected : Stamp \cup {<<>>}, targets : SUBSET Identifier,
           all : BOOLEAN, of : Stamp \cup {<<>>}, dirty : BOOLEAN]

DeriveTypes ==
  /\ extra \in Extras
  /\ derive \in [Derivers -> Derive]
  /\ watermark \in [digest : Stamp \cup {<<>>}, all : BOOLEAN]
  /\ DOMAIN classes \subseteq Windows
  /\ \A w \in DOMAIN classes : classes[w].digest = classes[w].of

\* A deriver whose look at the session is still good.
KnowsSession(v) ==
  /\ v.phase \in {"check", "write"} /\ ~ v.dirty => v.of = Digest
  /\ v.phase = "write" /\ ~ v.dirty => v.expected = Digest

\* What is not among the targets is up to date already, if all was to be done.
Outstanding(v) ==
  /\ v.phase # "idle" => v.targets \subseteq WindowsOf(v.expected[1])
  /\ v.phase \in {"load", "check", "write"} /\ v.all =>
       \A w \in DOMAIN classes \ v.targets : classes[w].digest = v.expected
  /\ v.phase = "mark" /\ v.all => \A w \in DOMAIN classes : classes[w].digest = v.expected

\* FreshIsFresh, on the digests recorded, and whatever the session is like.
MarkedIsCurrent ==
  watermark.all => \A w \in DOMAIN classes : classes[w].digest = watermark.digest \/ w \in unmarked

FInv ==
  /\ DeriveTypes
  /\ \A d \in Derivers : KnowsSession(derive[d]) /\ Outstanding(derive[d])
  /\ MarkedIsCurrent

\* What another's commit does to a deriver.
LEMMA DirtiedOne ==
  ASSUME FInv, NEW except, derive' = Dirtied(except)
  PROVE  /\ derive' \in [Derivers -> Derive]
         /\ \A d \in Derivers :
              /\ derive'[d].phase = derive[d].phase /\ derive'[d].all = derive[d].all
              /\ derive'[d].expected = derive[d].expected /\ derive'[d].of = derive[d].of
              /\ derive'[d].targets = derive[d].targets
              /\ d # except => derive'[d].phase = "idle" \/ derive'[d].dirty
              /\ derive[d].dirty => derive'[d].dirty
<1> SUFFICES ASSUME NEW d \in Derivers
             PROVE  /\ derive'[d] \in Derive
                    /\ derive'[d].phase = derive[d].phase /\ derive'[d].all = derive[d].all
                    /\ derive'[d].expected = derive[d].expected /\ derive'[d].of = derive[d].of
                    /\ derive'[d].targets = derive[d].targets
                    /\ d # except => derive'[d].phase = "idle" \/ derive'[d].dirty
                    /\ derive[d].dirty => derive'[d].dirty
  BY DEF Dirtied
<1>1. derive[d] \in Derive
  BY DEF FInv, DeriveTypes
<1>2. CASE d # except /\ derive[d] # Idle
  <2>1. derive'[d] = [derive[d] EXCEPT !.dirty = TRUE]
    BY <1>2 DEF Dirtied
  <2> QED
    BY <1>1, <2>1 DEF Derive
<1>3. CASE ~ (d # except /\ derive[d] # Idle)
  <2>1. derive'[d] = derive[d]
    BY <1>3 DEF Dirtied
  <2>2. d # except => derive[d].phase = "idle"
    BY <1>3 DEF Idle
  <2> QED
    BY <1>1, <2>1, <2>2
<1> QED
  BY <1>2, <1>3

\* An ingest takes classifications away, and ends what the derivers know.  Whether the
\* session comes to look again as it did before makes no difference.
LEMMA IngestFInv ==
  ASSUME IInv, FInv, AppendTurn \/ Extend \/ Upgrade
  PROVE  FInv'
<1>1. PICK new \in Seq(Contents) : \E kept : Replace(new, kept) /\ kept \subseteq DOMAIN classes
  BY IngestTyped
<1>2. PICK kept \in SUBSET DOMAIN classes : Replace(new, kept)
  BY <1>1
<1>3. /\ turns' = new /\ extra' \in Extras /\ derive' = Dirtied(Owner)
      /\ watermark' = watermark /\ unmarked' = unmarked
      /\ classes' = [w \in kept \cap WindowsOf(new) |-> classes[w]]
  BY <1>2 DEF Replace
<1>4. /\ DOMAIN classes' = kept \cap WindowsOf(new)
      /\ \A w \in DOMAIN classes' : w \in DOMAIN classes /\ classes'[w] = classes[w]
  BY <1>3
<1>5. \A d \in Derivers : d # Owner
  BY OwnerAssumption
<1>6. DeriveTypes'
  BY <1>3, <1>4, DirtiedOne DEF FInv, DeriveTypes, Windows
<1>7. ASSUME NEW d \in Derivers
      PROVE  KnowsSession(derive[d])' /\ Outstanding(derive[d])'
  <2>1. /\ derive'[d].phase = derive[d].phase /\ derive'[d].all = derive[d].all
        /\ derive'[d].expected = derive[d].expected
        /\ derive'[d].targets = derive[d].targets
        /\ derive'[d].phase = "idle" \/ derive'[d].dirty
    BY <1>3, <1>5, DirtiedOne
  <2>2. Outstanding(derive[d])
    BY DEF FInv
  <2>3. KnowsSession(derive[d])'
    BY <2>1 DEF KnowsSession
  <2>4. Outstanding(derive[d])'
    BY <1>4, <2>1, <2>2 DEF Outstanding
  <2> QED
    BY <2>3, <2>4
<1>8. MarkedIsCurrent'
  BY <1>3, <1>4 DEF FInv, MarkedIsCurrent
<1> QED
  BY <1>6, <1>7, <1>8 DEF FInv

\* A deriver goes on, and nothing else changes.
LEMMA GoesOn ==
  ASSUME FInv, NEW d \in Derivers, NEW v \in Derive, derive' = [derive EXCEPT ![d] = v],
         UNCHANGED <<session, classes, watermark, unmarked>>, KnowsSession(v), Outstanding(v)
  PROVE  FInv'
<1>1. derive' \in [Derivers -> Derive] /\ derive'[d] = v
      /\ \A e \in Derivers \ {d} : derive'[e] = derive[e]
  BY DEF FInv, DeriveTypes
<1>2. UNCHANGED <<turns, extra, classes, watermark, unmarked>>
  BY DEF session
<1>3. DeriveTypes' /\ MarkedIsCurrent'
  BY <1>1, <1>2 DEF FInv, DeriveTypes, MarkedIsCurrent, Windows
<1>4. ASSUME NEW e \in Derivers
      PROVE  KnowsSession(derive[e])' /\ Outstanding(derive[e])'
  <2>1. KnowsSession(derive'[e]) /\ Outstanding(derive'[e])
    BY <1>1 DEF FInv
  <2> QED
    BY <1>2, <2>1 DEF KnowsSession, Outstanding, Digest
<1> QED
  BY <1>3, <1>4 DEF FInv

LEMMA IdleKnows == Idle \in Derive /\ KnowsSession(Idle) /\ Outstanding(Idle)
BY DEF Idle, Derive, Phase, KnowsSession, Outstanding

\* What a deriver finds outdated is outdated, and the rest is not.
LEMMA LookFInv ==
  ASSUME IInv, FInv, NEW d \in Derivers, NEW chosen \in SUBSET Windows, NEW force \in BOOLEAN,
         Look(d, chosen, force)
  PROVE  FInv'
<1> DEFINE targets == IF force THEN Windows ELSE Stale \cap chosen
           all == force \/ Stale \subseteq chosen
           phase == IF ~ force /\ targets = {} /\ Covered THEN "mark" ELSE "load"
           v == [phase |-> phase, expected |-> Digest, targets |-> targets, all |-> all,
                 of |-> <<>>, dirty |-> FALSE]
<1>1. derive' = [derive EXCEPT ![d] = v] /\ UNCHANGED <<session, classes, watermark, unmarked>>
  BY DEF Look
<1>2. /\ targets \subseteq Windows /\ Windows \subseteq Identifier
      /\ turns \in Seq(Contents) /\ extra \in Extras
  BY WindowsTyped DEF IInv, Types, FInv, DeriveTypes, Windows, Stale
<1>3. Digest \in Stamp /\ Digest[1] = turns /\ Digest[2] = extra
  BY <1>2 DEF Digest, Stamp
<1>4. all => \A w \in DOMAIN classes \ targets : classes[w].digest = Digest
  BY DEF FInv, DeriveTypes, Stale
<1>5. /\ phase \in {"load", "mark"} /\ phase \in Phase /\ all \in BOOLEAN
      /\ phase = "mark" => targets = {}
  BY DEF Phase
<1> HIDE DEF targets, all, phase
<1>6. v \in Derive
  <2>1. /\ phase \in Phase /\ Digest \in Stamp \cup {<<>>} /\ targets \in SUBSET Identifier
        /\ all \in BOOLEAN /\ <<>> \in Stamp \cup {<<>>}
    BY <1>2, <1>3, <1>5
  <2> HIDE DEF Digest
  <2> QED
    BY <2>1 DEF Derive
<1>7. /\ v.phase = phase /\ v.expected = Digest /\ v.targets = targets /\ v.all = all
  OBVIOUS
<1> HIDE DEF v
<1>8. KnowsSession(v)
  BY <1>5, <1>7 DEF KnowsSession
<1>9. Outstanding(v)
  <2>1. v.targets \subseteq WindowsOf(v.expected[1])
    BY <1>2, <1>3, <1>7 DEF Windows
  <2>2. v.all => \A w \in DOMAIN classes \ v.targets : classes[w].digest = v.expected
    BY <1>4, <1>7
  <2> QED
    BY <1>5, <1>7, <2>1, <2>2 DEF Outstanding
<1> QED
  BY <1>1, <1>6, <1>8, <1>9, GoesOn

\* It loads, compares and gives up without a trace.
LEMMA LoadFInv ==
  ASSUME IInv, FInv, NEW d \in Derivers, Load(d) \/ Check(d) \/ GiveUp(d)
  PROVE  FInv'
<1>1. /\ UNCHANGED <<session, classes, watermark, unmarked>>
      /\ derive \in [Derivers -> Derive] /\ derive[d] \in Derive
      /\ KnowsSession(derive[d]) /\ Outstanding(derive[d])
  BY DEF Load, Check, GiveUp, FInv, DeriveTypes
<1>2. Digest \in Stamp
  BY DEF IInv, Types, FInv, DeriveTypes, Digest, Stamp
<1>3. CASE Load(d)
  <2> DEFINE v == [derive[d] EXCEPT !.phase = "check", !.of = Digest, !.dirty = FALSE]
  <2>1. derive' = [derive EXCEPT ![d] = v]
    BY <1>1, <1>3 DEF Load
  <2>2. /\ v \in Derive /\ v.phase = "check" /\ v.expected = derive[d].expected
        /\ v.targets = derive[d].targets /\ v.all = derive[d].all /\ v.of = Digest
    BY <1>1, <1>2 DEF Derive, Phase
  <2> HIDE DEF v
  <2>3. KnowsSession(v) /\ Outstanding(v)
    BY <1>1, <1>3, <2>2 DEF Load, KnowsSession, Outstanding
  <2> QED
    BY <1>1, <2>1, <2>2, <2>3, GoesOn
<1>4. CASE Check(d)
  <2> DEFINE v == [derive[d] EXCEPT !.phase = "write"]
  <2>1. derive' = [derive EXCEPT ![d] = v]
    BY <1>1, <1>4 DEF Check
  <2>2. /\ v \in Derive /\ v.phase = "write" /\ v.expected = derive[d].expected
        /\ v.targets = derive[d].targets /\ v.all = derive[d].all /\ v.of = derive[d].of
        /\ v.dirty = derive[d].dirty
    BY <1>1 DEF Derive, Phase
  <2> HIDE DEF v
  <2>3. KnowsSession(v) /\ Outstanding(v)
    BY <1>1, <1>4, <2>2 DEF Check, KnowsSession, Outstanding
  <2> QED
    BY <1>1, <2>1, <2>2, <2>3, GoesOn
<1>5. CASE GiveUp(d)
  BY <1>1, <1>5, IdleKnows, GoesOn DEF GiveUp
<1> QED
  BY <1>3, <1>4, <1>5

\* The daemon's derive thread, or one derive from the command line.
OneDeriver == \A d, e \in Derivers : d = e

\* Nobody else commits.
LEMMA AloneIsClean ==
  ASSUME OneDeriver, FInv, NEW d \in Derivers
  PROVE  Dirtied(d) = derive
BY DEF OneDeriver, FInv, DeriveTypes, Dirtied

\* What the deriver writes is of the session as it is, and completes the rest if it
\* was to do all.
LEMMA ClassifyFInv ==
  ASSUME OneDeriver, IInv, FInv, NEW d \in Derivers, Classify(d)
  PROVE  FInv'
<1> DEFINE new == [digest |-> derive[d].expected, of |-> derive[d].of]
           v == [derive[d] EXCEPT !.phase = "mark"]
<1>1. /\ derive[d] \in Derive /\ derive[d].phase = "write" /\ ~ derive[d].dirty
      /\ KnowsSession(derive[d]) /\ Outstanding(derive[d])
  BY DEF Classify, FInv, DeriveTypes
<1>2. /\ derive[d].expected = Digest /\ derive[d].of = Digest /\ Digest[1] = turns
      /\ derive[d].targets \subseteq Windows
  BY <1>1 DEF KnowsSession, Outstanding, Digest, Windows
<1>3. UNCHANGED <<turns, extra>>
  BY DEF Classify, session
<1>4. derive' = [derive EXCEPT ![d] = v] /\ \A e \in Derivers : e = d
  BY AloneIsClean DEF Classify, OneDeriver
<1>5. /\ derive' \in [Derivers -> Derive] /\ derive'[d] = v
      /\ v.phase = "mark" /\ v.expected = Digest /\ v.all = derive[d].all
      /\ v.targets = derive[d].targets
  <2>1. /\ v \in Derive /\ v.phase = "mark" /\ v.expected = Digest /\ v.all = derive[d].all
        /\ v.targets = derive[d].targets
    BY <1>1, <1>2 DEF Derive, Phase
  <2> HIDE DEF v
  <2> QED
    BY <1>4, <2>1 DEF FInv, DeriveTypes
<1>6. /\ DOMAIN classes' = DOMAIN classes \cup derive[d].targets
      /\ \A w \in derive[d].targets : classes'[w] = new
      /\ \A w \in DOMAIN classes \ derive[d].targets : classes'[w] = classes[w]
      /\ new.digest = Digest /\ new.of = Digest
  BY <1>2 DEF Classify
<1> HIDE DEF new, v
<1>7. /\ watermark'.digest = watermark.digest
      /\ watermark'.all => watermark.all /\ derive[d].all
      /\ watermark' \in [digest : Stamp \cup {<<>>}, all : BOOLEAN]
  BY <1>1 DEF Classify, FInv, DeriveTypes, Derive
<1>8. derive[d].all => \A w \in DOMAIN classes' : classes'[w].digest = Digest
  BY <1>1, <1>2, <1>6 DEF Outstanding
<1>9. DeriveTypes'
  BY <1>2, <1>3, <1>5, <1>6, <1>7 DEF FInv, DeriveTypes, Windows
<1>10. MarkedIsCurrent'
  <2>1. unmarked' = IF derive[d].expected = watermark.digest
                    THEN unmarked \ derive[d].targets ELSE unmarked \cup derive[d].targets
    BY DEF Classify
  <2>2. watermark'.all => \A w \in DOMAIN classes :
                            classes[w].digest = watermark.digest \/ w \in unmarked
    BY <1>7 DEF FInv, MarkedIsCurrent
  <2> QED
    BY <1>2, <1>6, <1>7, <2>1, <2>2 DEF MarkedIsCurrent
<1>11. ASSUME NEW e \in Derivers
       PROVE  KnowsSession(derive[e])' /\ Outstanding(derive[e])'
  <2>1. derive'[e] = v
    BY <1>4, <1>5
  <2>2. KnowsSession(derive[e])'
    BY <1>5, <2>1 DEF KnowsSession
  <2>3. Outstanding(derive[e])'
    BY <1>2, <1>3, <1>5, <1>8, <2>1 DEF Outstanding, Windows
  <2> QED
    BY <2>2, <2>3
<1> QED
  BY <1>9, <1>10, <1>11 DEF FInv

\* The watermark is of the session that the classifications were made from, perhaps
\* of an earlier one by now.
LEMMA MarkFInv ==
  ASSUME OneDeriver, IInv, FInv, NEW d \in Derivers, Mark(d)
  PROVE  FInv'
<1>1. /\ derive[d] \in Derive /\ derive[d].phase = "mark"
      /\ Outstanding(derive[d])
  BY DEF Mark, FInv, DeriveTypes
<1>2. /\ UNCHANGED <<turns, extra, classes>>
      /\ watermark' = [digest |-> derive[d].expected, all |-> derive[d].all]
  BY DEF Mark, session
<1>3. /\ watermark' \in [digest : Stamp \cup {<<>>}, all : BOOLEAN]
      /\ watermark'.digest = derive[d].expected /\ watermark'.all = derive[d].all
  BY <1>1, <1>2 DEF Derive
<1>4. derive' = [derive EXCEPT ![d] = Idle] /\ \A e \in Derivers : e = d
  BY AloneIsClean DEF Mark, OneDeriver
<1>5. derive' \in [Derivers -> Derive] /\ \A e \in Derivers : derive'[e] = Idle
  BY <1>4, IdleKnows DEF FInv, DeriveTypes
<1>6. DeriveTypes'
  BY <1>2, <1>3, <1>5 DEF FInv, DeriveTypes, Windows
<1>7. MarkedIsCurrent'
  BY <1>1, <1>2, <1>3 DEF MarkedIsCurrent, Outstanding
<1>8. \A e \in Derivers : KnowsSession(derive[e])' /\ Outstanding(derive[e])'
  BY <1>5 DEF Idle, KnowsSession, Outstanding
<1> QED
  BY <1>6, <1>7, <1>8 DEF FInv

\* A commit that is about labels only can but make a deriver give up.
LEMMA LabelsFInv ==
  ASSUME FInv, UNCHANGED <<turns, extra, classes, watermark, unmarked>>,
         derive' = derive \/ derive' = Dirtied(Owner)
  PROVE  FInv'
<1>1. /\ derive' \in [Derivers -> Derive]
      /\ \A d \in Derivers :
           /\ derive'[d].phase = derive[d].phase /\ derive'[d].all = derive[d].all
           /\ derive'[d].expected = derive[d].expected /\ derive'[d].of = derive[d].of
           /\ derive'[d].targets = derive[d].targets
           /\ derive[d].dirty => derive'[d].dirty
  <2>1. CASE derive' = derive
    BY <2>1 DEF FInv, DeriveTypes
  <2>2. CASE derive' = Dirtied(Owner)
    BY <2>2, DirtiedOne
  <2> QED
    BY <2>1, <2>2
<1>2. DeriveTypes' /\ MarkedIsCurrent'
  BY <1>1 DEF FInv, DeriveTypes, MarkedIsCurrent, Windows
<1>3. ASSUME NEW e \in Derivers
      PROVE  KnowsSession(derive[e])' /\ Outstanding(derive[e])'
  <2>1. KnowsSession(derive[e]) /\ Outstanding(derive[e])
    BY DEF FInv
  <2> QED
    BY <1>1, <2>1 DEF KnowsSession, Outstanding, Digest
<1> QED
  BY <1>2, <1>3 DEF FInv

\* Nothing has been derived.
LEMMA InitFInv == Init => FInv
<1> SUFFICES ASSUME Init PROVE FInv
  OBVIOUS
<1>1. /\ extra \in Extras /\ classes = <<>> /\ watermark = NoMark
      /\ derive = [d \in Derivers |-> Idle]
  BY DEF Init
<1>2. DOMAIN classes = {}
  BY <1>1
<1>3. derive \in [Derivers -> Derive] /\ \A d \in Derivers : derive[d] = Idle
  BY <1>1, IdleKnows
<1>4. /\ watermark \in [digest : Stamp \cup {<<>>}, all : BOOLEAN]
      /\ watermark.digest = <<>> /\ ~ watermark.all
  BY <1>1 DEF NoMark
<1> QED
  BY <1>1, <1>2, <1>3, <1>4, IdleKnows DEF FInv, DeriveTypes, MarkedIsCurrent

\* With one derive at a time, what the health endpoint calls up to date has been made
\* from the session as it is, whatever ingests the run overlapped with, also when the
\* session came to look again as it did before; but for the windows that a restricted
\* run left behind, and for those that a run classified without, or before, leaving
\* its watermark.
THEOREM FreshnessIsHonest ==
  ASSUME OneDeriver
  PROVE  Spec => []FreshIsFresh
<1>1. ASSUME IInv, FInv, [Next]_vars PROVE FInv'
  <2>1. CASE UNCHANGED vars
    BY <1>1, <2>1, LabelsFInv DEF vars, session
  <2>2. CASE \E by \in Labellers, w \in Windows : Ask(by, w)
    BY <1>1, <2>2, LabelsFInv DEF Ask, session
  <2>3. CASE Answer \/ Insert
    BY <1>1, <2>3, LabelsFInv DEF Answer, Insert, session
  <2> QED
    BY <1>1, <2>1, <2>2, <2>3, IngestFInv, LookFInv, LoadFInv, ClassifyFInv, MarkFInv DEF Next
<1>2. FInv => FreshIsFresh
  BY DEF FInv, DeriveTypes, MarkedIsCurrent, FreshIsFresh, Fresh, Covered
<1> QED
  BY <1>1, <1>2, InitFInv, Invariance, PTL DEF Spec
=============================================================================
