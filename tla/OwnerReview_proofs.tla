------------------------- MODULE OwnerReview_proofs -------------------------
(* Proofs about OwnerReview, for any sessions, texts and bounds.             *)
EXTENDS OwnerReview, FiniteSetTheorems, TLAPS

(***************************************************************************)
(* Batches.                                                                *)
(***************************************************************************)

\* A bounded set of numbers has a greatest one.
LEMMA Greatest ==
  ASSUME NEW S \in SUBSET Nat, NEW n \in Nat, S # {}, \A x \in S : x <= n
  PROVE  \E g \in S : \A x \in S : x <= g
<1> DEFINE Above(x) == {y \in S : x < y}
           Sets == {Above(x) : x \in S}
<1>1. IsFiniteSet(S)
  BY FS_BoundedSetOfNaturals
<1>2. Sets \subseteq FiniteSubsetsOf(S) /\ Sets # {}
  <2>1. \A x \in S : Above(x) \in SUBSET S /\ IsFiniteSet(Above(x))
    BY <1>1, FS_Subset
  <2> HIDE DEF Above
  <2> QED
    BY <2>1 DEF FiniteSubsetsOf
<1>3. PICK A \in Sets : \A B \in Sets : <<B, A>> \notin StrictSubsetOrdering(S)
  <2> HIDE DEF Sets
  <2> QED
    BY <1>2, FS_StrictSubsetOrderingWellFounded, WFMin
<1>4. PICK g \in S : A = Above(g)
  OBVIOUS
<1>5. ASSUME NEW x \in S, g < x PROVE FALSE
  <2>0. x \in Nat /\ g \in Nat /\ \A y \in S : y \in Nat
    OBVIOUS
  <2>1. Above(x) \subseteq Above(g) /\ x \in Above(g) /\ x \notin Above(x)
    <3>1. ASSUME NEW y \in Above(x) PROVE y \in Above(g)
      BY <1>5, <2>0
    <3>2. x \in Above(g) /\ x \notin Above(x)
      BY <1>5, <2>0
    <3> QED
      BY <3>1, <3>2
  <2>2. <<Above(x), Above(g)>> \in StrictSubsetOrdering(S)
    BY <2>1 DEF StrictSubsetOrdering
  <2> QED
    BY <1>3, <1>4, <2>2
<1> QED
  BY <1>5

\* An entry of a corpus.
LEMMA EntryFields ==
  ASSUME NEW m, NEW role
  PROVE  LET e == Entry(m, role)
         IN  /\ e.session = m.session /\ e.pos = m.pos /\ e.text = m.text
             /\ e.role = role /\ e.gen = generation[m.session]
BY DEF Entry

\* What is exported are messages of the corpus, each new one among them.
LEMMA ExportEntries ==
  ASSUME NEW corpus
  PROVE  /\ \A e \in Export(corpus) : \E m \in corpus : e = Entry(m, "new") \/ e = Entry(m, "context")
         /\ \A m \in corpus : Unseen(m) => Entry(m, "new") \in Export(corpus)
<1>1. \A n : Before(n, corpus) \subseteq corpus
  BY DEF Before
<1> QED
  BY <1>1 DEF Export

\* The order of the export.
LEMMA RanksAreNumbers ==
  ASSUME NEW s \in Sessions, NEW p \in Position
  PROVE  s * (MaxLen + 1) + p \in Nat
<1>1. s \in Nat /\ p \in Nat
  BY SessionAssumption, LengthAssumption DEF Position
<1>2. \A a, b \in Nat : a * (b + 1) \in Nat
  OBVIOUS
<1>3. s * (MaxLen + 1) \in Nat
  BY <1>1, <1>2, LengthAssumption
<1> QED
  BY <1>1, <1>3

\* Every entry of an export is in one of the batches it is cut into, and they hold
\* nothing else.
LEMMA GroupsCover ==
  ASSUME NEW export, NEW starts \in Cuts(export),
         \A e \in export : e.session \in Sessions /\ e.pos \in Position
  PROVE  /\ \A G \in Groups(export, starts) : G \subseteq export
         /\ \A e \in export : \E G \in Groups(export, starts) : e \in G
<1>1. \A G \in Groups(export, starts) : G \subseteq export
  BY DEF Groups
<1>2. ASSUME NEW e \in export PROVE \E G \in Groups(export, starts) : e \in G
  <2>1. starts \subseteq export /\ \A x \in export : Rank(x) \in Nat
    <3>2. ASSUME NEW x \in export PROVE Rank(x) \in Nat
      BY RanksAreNumbers DEF Rank
    <3> QED
      BY <3>2 DEF Cuts
  <2> DEFINE R == {Rank(h) : h \in {x \in starts : Rank(x) <= Rank(e)}}
  <2>2. R \in SUBSET Nat /\ R # {} /\ \A x \in R : x <= Rank(e)
    BY <2>1 DEF Cuts
  <2>3. PICK g \in R : \A x \in R : x <= g
    <3> HIDE DEF R
    <3> QED
      BY <2>1, <2>2, Greatest
  <2>4. PICK h \in starts : g = Rank(h) /\ Rank(h) <= Rank(e)
    OBVIOUS
  <2>5. \A f \in starts : Rank(f) <= Rank(h) \/ Rank(e) < Rank(f)
    BY <2>1, <2>3, <2>4
  <2>6. e \in {x \in export : /\ Rank(x) >= Rank(h)
                              /\ \A f \in starts : Rank(f) <= Rank(h) \/ Rank(x) < Rank(f)}
    BY <2>1, <2>4, <2>5
  <2> QED
    BY <2>6 DEF Groups
<1> QED
  BY <1>1, <1>2

(***************************************************************************)
(* The invariant, action by action.                                        *)
(***************************************************************************)

\* Nothing is on record at first.
LEMMA InitIInv == Init => IInv
<1> SUFFICES ASSUME Init PROVE IInv
  OBVIOUS
<1>1. TypeOK
  <2>1. source \in [Sessions -> Seq(Texts \cup {Blank})]
    <3>1. ASSUME NEW t \in Texts PROVE <<t>> \in Seq(Texts \cup {Blank})
      <4>1. t \in Texts \cup {Blank}
        OBVIOUS
      <4> HIDE DEF Init
      <4> QED
        BY <4>1
    <3> QED
      BY <3>1 DEF Init
  <2>2. DOMAIN batches = {}
    BY DEF Init
  <2> QED
    BY <2>1, <2>2 DEF Init, TypeOK, Idle, NoImport
<1>2. OneMessage /\ RowsInBatches /\ SealedWithItsBatch /\ EvidenceStands /\ QuotesStand
  BY DEF Init, OneMessage, RowsInBatches, SealedWithItsBatch, EvidenceStands, QuotesStand, Idle, NoImport
<1>3. DOMAIN batches = {}
  BY DEF Init
<1> QED
  BY <1>1, <1>2, <1>3 DEF IInv

\* When only a transcript changes, all that matters is what is quoted of it.
LEMMA SourceIInv ==
  ASSUME IInv, UNCHANGED <<ledger, run, importing>>,
         source' \in [Sessions -> Seq(Texts \cup {Blank})],
         \A c \in claims : Stands(c)',
         \A q \in importing.quoted, b \in importing.batches \cap DOMAIN batches :
           q.session \in SessionsOf(b) /\ Stands(q) /\ batches[b].status # "blocked" => Stands(q)'
  PROVE  IInv'
<1>1. TypeOK' /\ OneMessage' /\ RowsInBatches' /\ SealedWithItsBatch'
  BY DEF IInv, TypeOK, OneMessage, RowsInBatches, SealedWithItsBatch, ledger
<1>2. \A b \in DOMAIN batches : BatchOK(b)'
  BY DEF IInv, BatchOK, ledger
<1>3. EvidenceStands'
  BY DEF EvidenceStands, ledger
<1>4. QuotesStand'
  BY DEF IInv, QuotesStand, ledger, SessionsOf
<1> QED
  BY <1>1, <1>2, <1>3, <1>4 DEF IInv, ledger

\* What stood still stands when a message is added.
LEMMA AppendIInv ==
  ASSUME IInv, NEW s \in Sessions, Append_(s)
  PROVE  IInv'
<1>1. PICK t \in Texts : source' = [source EXCEPT ![s] = Append(@, t)]
  BY DEF Append_
<1>2. source' \in [Sessions -> Seq(Texts \cup {Blank})]
  BY <1>1 DEF IInv, TypeOK
<1>3. ASSUME NEW q \in Quote, Stands(q) PROVE Stands(q)'
  BY <1>1, <1>3, LengthAssumption DEF IInv, TypeOK, Stands, Quote, Position
<1>4. \A c \in claims : Stands(c)'
  BY <1>3 DEF IInv, TypeOK, EvidenceStands
<1>5. \A q \in importing.quoted : Stands(q) => Stands(q)'
  BY <1>3 DEF IInv, TypeOK
<1> QED
  BY <1>2, <1>4, <1>5, SourceIInv DEF Append_

\* A session with claims, or with a batch an import under way quotes, is not rewritten.
LEMMA UpgradeIInv ==
  ASSUME IInv, NEW s \in Sessions, Upgrade(s)
  PROVE  IInv'
<1>0. PICK n \in Position :
        \E new \in [1..n -> Texts \cup {Blank}] : source' = [source EXCEPT ![s] = new]
  BY DEF Upgrade
<1>1. PICK new \in [1..n -> Texts \cup {Blank}] : source' = [source EXCEPT ![s] = new]
  BY <1>0
<1>2. new \in Seq(Texts \cup {Blank})
  BY LengthAssumption DEF Position
<1>3. source' \in [Sessions -> Seq(Texts \cup {Blank})]
  BY <1>1, <1>2 DEF IInv, TypeOK
<1>4. ASSUME NEW q \in Quote, q.session # s, Stands(q) PROVE Stands(q)'
  BY <1>1, <1>4 DEF IInv, TypeOK, Stands, Quote
<1>5. \A c \in claims : Stands(c)'
  BY <1>4 DEF Upgrade, HasProvenance, IInv, TypeOK, EvidenceStands
<1>6. ASSUME NEW q \in importing.quoted, NEW b \in importing.batches \cap DOMAIN batches,
             q.session \in SessionsOf(b), Stands(q), batches[b].status # "blocked"
      PROVE  Stands(q)'
  <2>1. batches[b].status \in {"prepared", "imported"}
    BY <1>6 DEF IInv, TypeOK
  <2>2. q.session # s
    BY <1>6, <2>1 DEF Upgrade, HasProvenance
  <2> QED
    BY <1>4, <1>6, <2>2 DEF IInv, TypeOK
<1> QED
  BY <1>3, <1>5, <1>6, SourceIInv DEF Upgrade

\* A corpus has one message for each position with text.
LEMMA CollectIInv ==
  ASSUME IInv, NEW S \in SUBSET Sessions, NEW full \in BOOLEAN, Collect(S, full)
  PROVE  IInv'
<1>1. ASSUME NEW m \in Corpus(S) PROVE m \in Message
  <2>1. PICK x \in S \X Position :
          /\ x[2] <= Len(source[x[1]])
          /\ m = [session |-> x[1], pos |-> x[2], text |-> source[x[1]][x[2]], settled |-> x \in settled]
    BY DEF Corpus
  <2>2. source[x[1]][x[2]] \in Texts \cup {Blank}
    BY <2>1, LengthAssumption DEF IInv, TypeOK, Position
  <2>3. (x \in settled) \in BOOLEAN
    OBVIOUS
  <2> QED
    BY <2>1, <2>2, <2>3 DEF Message
<1>2. \A m, n \in Corpus(S) : m.session = n.session /\ m.pos = n.pos => m = n
  BY DEF Corpus
<1>3. run'.corpus = Corpus(S)
  BY DEF Collect
<1>4. TypeOK'
  BY <1>1, <1>3 DEF Collect, IInv, TypeOK, ledger
<1>5. OneMessage'
  BY <1>2, <1>3 DEF OneMessage
<1>6. RowsInBatches' /\ SealedWithItsBatch' /\ EvidenceStands' /\ QuotesStand'
  BY DEF Collect, IInv, RowsInBatches, SealedWithItsBatch, EvidenceStands, QuotesStand, Stands, ledger, SessionsOf
<1>7. \A b \in DOMAIN batches : BatchOK(b)'
  BY DEF Collect, IInv, BatchOK, ledger
<1> QED
  BY <1>4, <1>5, <1>6, <1>7 DEF Collect, IInv, ledger

\* What insights-extract records: for each group not on record a batch, and a row for
\* each new message.
LEMMA RecordIInv ==
  ASSUME IInv, NEW groups, Record(groups),
         \A G \in groups : \A e \in G :
           \E m \in run.corpus : e = Entry(m, "new") \/ e = Entry(m, "context"),
         run' = Idle, UNCHANGED <<source, generation, claims, importing>>
  PROVE  IInv'
<1> DEFINE fresh == groups \ DOMAIN batches
<1>1. /\ DOMAIN batches' = DOMAIN batches \cup fresh
      /\ \A b \in fresh : batches'[b] = [status |-> "prepared", result |-> 0]
      /\ \A b \in DOMAIN batches : batches'[b] = batches[b]
  BY DEF Record
<1>2. rows' = rows \cup UNION {NewRows(b) : b \in fresh}
  BY DEF Record
<1>3. ASSUME NEW G \in groups, NEW e \in G
      PROVE  /\ e.session \in Sessions /\ e.pos \in Position /\ e.text \in Texts \cup {Blank}
             /\ e.gen = generation[e.session] /\ e.gen \in Nat
  <2>1. PICK m \in run.corpus : e = Entry(m, "new") \/ e = Entry(m, "context")
    OBVIOUS
  <2>2. m \in Message
    BY DEF IInv, TypeOK
  <2>3. /\ e.session = m.session /\ e.pos = m.pos /\ e.text = m.text
        /\ e.gen = generation[m.session]
    BY <2>1, EntryFields
  <2> QED
    BY <2>2, <2>3 DEF Message, IInv, TypeOK
<1>4. ASSUME NEW b \in fresh, NEW r \in NewRows(b)
      PROVE  /\ r \in [session : Sessions, pos : Position, gen : Nat, text : Texts \cup {Blank},
                      batch : DOMAIN batches', status : {"prepared", "imported"}]
             /\ r.batch = b /\ r.status = "prepared"
             /\ \E e \in b : e.session = r.session /\ e.gen = r.gen
  <2>1. PICK e \in b : r = [session |-> e.session, pos |-> e.pos, gen |-> e.gen, text |-> e.text,
                           batch |-> b, status |-> "prepared"]
    BY DEF NewRows
  <2>2. b \in groups /\ b \in DOMAIN batches'
    BY <1>1
  <2> QED
    BY <1>3, <2>1, <2>2
<1>5. ASSUME NEW b \in fresh, NEW e \in b, e.role = "new"
      PROVE  \E r \in rows' : r.session = e.session /\ r.pos = e.pos /\ r.gen = e.gen
  <2> DEFINE row == [session |-> e.session, pos |-> e.pos, gen |-> e.gen, text |-> e.text,
                     batch |-> b, status |-> "prepared"]
  <2>1. row \in NewRows(b)
    BY <1>5 DEF NewRows
  <2>2. row \in rows'
    BY <1>2, <2>1
  <2> QED
    BY <2>2
<1> HIDE DEF fresh
<1>6. TypeOK'
  <2>1. rows' \subseteq [session : Sessions, pos : Position, gen : Nat, text : Texts \cup {Blank},
                        batch : DOMAIN batches', status : {"prepared", "imported"}]
    BY <1>1, <1>2, <1>4 DEF IInv, TypeOK
  <2>2. \A b \in DOMAIN batches' :
          batches'[b] \in [status : {"prepared", "imported", "blocked"}, result : Results \cup {0}]
    BY <1>1 DEF IInv, TypeOK
  <2> QED
    BY <2>1, <2>2 DEF IInv, TypeOK, Idle
<1>7. OneMessage'
  BY DEF OneMessage, Idle
<1>8. RowsInBatches'
  BY <1>2, <1>4 DEF IInv, RowsInBatches
<1>9. ASSUME NEW b \in DOMAIN batches' PROVE BatchOK(b)'
  <2>1. CASE b \in DOMAIN batches
    BY <1>1, <1>2, <2>1 DEF IInv, BatchOK
  <2>2. CASE b \in fresh
    <3>1. b \in groups /\ batches'[b].status = "prepared"
      BY <1>1, <2>2 DEF fresh
    <3>2. \A e \in b : /\ e.session \in Sessions /\ e.pos \in Position /\ e.text \in Texts \cup {Blank}
                      /\ e.gen = generation[e.session] /\ e.gen \in Nat
      BY <1>3, <3>1
    <3> QED
      BY <1>5, <2>2, <3>1, <3>2 DEF BatchOK
  <2> QED
    BY <1>1, <2>1, <2>2
<1>10. SealedWithItsBatch'
  <2>1. ASSUME NEW r \in rows PROVE r.status = "imported" <=> batches'[r.batch].status = "imported"
    BY <1>1 DEF IInv, TypeOK, SealedWithItsBatch
  <2>2. ASSUME NEW b \in fresh, NEW r \in NewRows(b)
        PROVE  r.status = "imported" <=> batches'[r.batch].status = "imported"
    BY <1>1, <1>4
  <2> QED
    BY <1>2, <2>1, <2>2 DEF SealedWithItsBatch
<1>11. EvidenceStands' /\ QuotesStand'
  BY <1>1 DEF IInv, EvidenceStands, QuotesStand, Stands, SessionsOf
<1> QED
  BY <1>6, <1>7, <1>8, <1>9, <1>10, <1>11 DEF IInv

LEMMA PrepareIInv ==
  ASSUME IInv, Prepare
  PROVE  IInv'
<1>1. CASE Proceeds(run.corpus, run.full)
  <2>1. PICK starts \in Cuts(Export(run.corpus)) : Record(Groups(Export(run.corpus), starts))
    BY <1>1 DEF Prepare
  <2>2. \A G \in Groups(Export(run.corpus), starts) : G \subseteq Export(run.corpus)
    BY DEF Groups
  <2>3. \A G \in Groups(Export(run.corpus), starts) : \A e \in G :
          \E m \in run.corpus : e = Entry(m, "new") \/ e = Entry(m, "context")
    BY <2>2, ExportEntries
  <2> QED
    BY <2>1, <2>3, RecordIInv DEF Prepare
<1>2. CASE ~Proceeds(run.corpus, run.full)
  <2>1. UNCHANGED <<source, ledger, importing>> /\ run' = Idle
    BY <1>2 DEF Prepare, ledger
  <2>2. TypeOK' /\ OneMessage'
    BY <2>1 DEF IInv, TypeOK, OneMessage, Idle, ledger
  <2>3. RowsInBatches' /\ SealedWithItsBatch' /\ EvidenceStands' /\ QuotesStand'
    BY <2>1 DEF IInv, RowsInBatches, SealedWithItsBatch, EvidenceStands, QuotesStand, Stands, ledger, SessionsOf
  <2>4. \A b \in DOMAIN batches : BatchOK(b)'
    BY <2>1 DEF IInv, BatchOK, ledger
  <2> QED
    BY <2>1, <2>2, <2>3, <2>4 DEF IInv, ledger
<1> QED
  BY <1>1, <1>2

\* A reset blocks only batches that hold a message of the generation it ends.
LEMMA ResetIInv ==
  ASSUME IInv, NEW s \in Sessions, Reset(s)
  PROVE  IInv'
<1>1. /\ generation' = [generation EXCEPT ![s] = generation[s] + 1]
      /\ DOMAIN batches' = DOMAIN batches
      /\ UNCHANGED <<source, rows, claims, run, importing>>
  BY DEF Reset
<1>2. ASSUME NEW b \in DOMAIN batches
      PROVE  \/ batches'[b] = batches[b]
             \/ /\ batches[b].status = "prepared" /\ s \in SessionsOf(b)
                /\ batches'[b].status = "blocked" /\ batches'[b].result = batches[b].result
                /\ batches'[b] \in [status : {"prepared", "imported", "blocked"}, result : Results \cup {0}]
  BY DEF Reset, IInv, TypeOK
<1>3. generation' \in [Sessions -> Nat]
  BY <1>1 DEF IInv, TypeOK
<1>4. TypeOK'
  BY <1>1, <1>2, <1>3 DEF IInv, TypeOK
<1>5. OneMessage' /\ RowsInBatches' /\ EvidenceStands'
  BY <1>1 DEF IInv, OneMessage, RowsInBatches, EvidenceStands, Stands
<1>6. SealedWithItsBatch'
  BY <1>1, <1>2 DEF IInv, TypeOK, SealedWithItsBatch
<1>7. QuotesStand'
  BY <1>1, <1>2 DEF IInv, QuotesStand, Stands, SessionsOf
<1>8. ASSUME NEW b \in DOMAIN batches PROVE BatchOK(b)'
  <2>1. BatchOK(b)
    BY DEF IInv
  <2>2. ASSUME NEW e \in b
        PROVE  /\ e.gen \in Nat /\ generation[e.session] \in Nat /\ generation'[e.session] \in Nat
               /\ generation[e.session] <= generation'[e.session]
               /\ e.session = s => generation[e.session] < generation'[e.session]
               /\ e.gen <= generation[e.session]
    BY <1>1, <1>3, <2>1 DEF BatchOK, IInv, TypeOK
  <2>3. ASSUME batches'[b].status = "blocked" PROVE \E e \in b : e.gen # generation'[e.session]
    <3>1. CASE batches[b].status = "blocked"
      BY <2>1, <2>2, <3>1 DEF BatchOK
    <3>2. CASE s \in SessionsOf(b)
      BY <2>2, <3>2 DEF SessionsOf
    <3> QED
      BY <1>2, <2>3, <3>1, <3>2
  <2>4. \A e \in b : e.gen <= generation'[e.session]
    BY <2>2
  <2> QED
    BY <1>1, <2>1, <2>3, <2>4 DEF BatchOK
<1> QED
  BY <1>1, <1>4, <1>5, <1>6, <1>7, <1>8 DEF IInv

\* The check finds each quote in its batch and in the transcript.
LEMMA CheckImportIInv ==
  ASSUME IInv, NEW B \in SUBSET DOMAIN batches, NEW result \in Results,
         NEW quoted \in SUBSET UNION B, CheckImport(B, result, quoted)
  PROVE  IInv'
<1> DEFINE quote(e) == [session |-> e.session, pos |-> e.pos, text |-> e.text]
<1>1. /\ importing'.batches = B /\ importing'.result = result
      /\ importing'.quoted = {quote(e) : e \in quoted}
      /\ UNCHANGED <<source, generation, rows, batches, claims, run>>
  BY DEF CheckImport, ledger
<1>2. ASSUME NEW e \in quoted
      PROVE  /\ quote(e) \in Quote
             /\ \E b \in B : quote(e).session \in SessionsOf(b) /\ Stands(quote(e))
  <2>1. PICK b \in B : e \in b
    OBVIOUS
  <2>2. BatchOK(b)
    BY DEF IInv
  <2>3. Stands(quote(e))
    BY DEF CheckImport, Stands
  <2> QED
    BY <2>1, <2>2, <2>3 DEF BatchOK, Quote, SessionsOf
<1>3. TypeOK'
  BY <1>1, <1>2 DEF IInv, TypeOK
<1>4. OneMessage' /\ RowsInBatches' /\ SealedWithItsBatch' /\ EvidenceStands'
  BY <1>1 DEF IInv, OneMessage, RowsInBatches, SealedWithItsBatch, EvidenceStands, Stands
<1>5. QuotesStand'
  <2>1. ASSUME NEW q PROVE Stands(q)' <=> Stands(q)
    BY <1>1 DEF Stands
  <2> QED
    BY <1>1, <1>2, <2>1 DEF QuotesStand, SessionsOf
<1>6. \A b \in DOMAIN batches : BatchOK(b)'
  BY <1>1 DEF IInv, BatchOK
<1> QED
  BY <1>1, <1>3, <1>4, <1>5, <1>6 DEF IInv

\* The import looks again whether a batch was blocked; if not, its quotes stand.
LEMMA CommitImportIInv ==
  ASSUME IInv, CommitImport
  PROVE  IInv'
<1>0. /\ importing'.quoted = {} /\ importing'.result = 0
      /\ UNCHANGED <<source, generation, run>>
  BY DEF CommitImport, NoImport
<1>1. CASE ~Importable(importing.batches, importing.result)
  <2>1. UNCHANGED <<claims, batches, rows>>
    BY <1>1 DEF CommitImport
  <2>2. TypeOK' /\ OneMessage'
    BY <1>0, <2>1 DEF IInv, TypeOK, OneMessage
  <2>3. RowsInBatches' /\ SealedWithItsBatch' /\ EvidenceStands' /\ QuotesStand'
    BY <1>0, <2>1 DEF IInv, RowsInBatches, SealedWithItsBatch, EvidenceStands, QuotesStand, Stands
  <2>4. \A b \in DOMAIN batches : BatchOK(b)'
    BY <1>0, <2>1 DEF IInv, BatchOK
  <2> QED
    BY <2>1, <2>2, <2>3, <2>4 DEF IInv
<1>2. CASE Importable(importing.batches, importing.result)
  <2>1. claims' \subseteq claims \cup importing.quoted
    BY <1>2 DEF CommitImport
  <2>2. /\ DOMAIN batches' = DOMAIN batches
        /\ \A b \in DOMAIN batches :
             batches'[b] = IF b \in importing.batches
                           THEN [status |-> "imported", result |-> importing.result] ELSE batches[b]
    BY <1>2 DEF CommitImport
  <2>3. rows' = {IF Sealed(r, importing.batches) THEN [r EXCEPT !.status = "imported"] ELSE r : r \in rows}
    BY <1>2 DEF CommitImport
  <2>4. ASSUME NEW r \in rows
        PROVE  LET n == IF Sealed(r, importing.batches) THEN [r EXCEPT !.status = "imported"] ELSE r
               IN  /\ n \in [session : Sessions, pos : Position, gen : Nat, text : Texts \cup {Blank},
                             batch : DOMAIN batches, status : {"prepared", "imported"}]
                   /\ n.session = r.session /\ n.pos = r.pos /\ n.gen = r.gen /\ n.batch = r.batch
                   /\ n.status = IF r.batch \in importing.batches THEN "imported" ELSE r.status
    <3>1. r \in [session : Sessions, pos : Position, gen : Nat, text : Texts \cup {Blank},
                 batch : DOMAIN batches, status : {"prepared", "imported"}]
      BY DEF IInv, TypeOK
    <3> QED
      BY <3>1 DEF Sealed
  <2>5. ASSUME NEW n \in rows'
        PROVE  /\ n \in [session : Sessions, pos : Position, gen : Nat, text : Texts \cup {Blank},
                         batch : DOMAIN batches, status : {"prepared", "imported"}]
               /\ \E r \in rows : /\ n.session = r.session /\ n.gen = r.gen /\ n.batch = r.batch
                                 /\ n.status = IF r.batch \in importing.batches THEN "imported" ELSE r.status
    BY <2>3, <2>4
  <2>6. ASSUME NEW r \in rows
        PROVE  \E n \in rows' : n.session = r.session /\ n.pos = r.pos /\ n.gen = r.gen
    BY <2>3, <2>4
  <2>7. TypeOK'
    <3>1. claims' \subseteq Quote
      BY <2>1 DEF IInv, TypeOK
    <3>2. \A b \in DOMAIN batches :
            batches'[b] \in [status : {"prepared", "imported", "blocked"}, result : Results \cup {0}]
      BY <2>2 DEF IInv, TypeOK
    <3>3. rows' \subseteq [session : Sessions, pos : Position, gen : Nat, text : Texts \cup {Blank},
                          batch : DOMAIN batches', status : {"prepared", "imported"}]
      BY <2>2, <2>5
    <3> QED
      BY <1>0, <2>2, <3>1, <3>2, <3>3 DEF IInv, TypeOK
  <2>8. OneMessage' /\ QuotesStand'
    BY <1>0 DEF IInv, OneMessage, QuotesStand
  <2>9. RowsInBatches'
    BY <2>5 DEF IInv, RowsInBatches
  <2>10. SealedWithItsBatch'
    <3>1. ASSUME NEW n \in rows' PROVE n.status = "imported" <=> batches'[n.batch].status = "imported"
      <4>1. PICK r \in rows : /\ n.batch = r.batch
                            /\ n.status = IF r.batch \in importing.batches THEN "imported" ELSE r.status
        BY <2>5
      <4>2. r.batch \in DOMAIN batches
        BY DEF IInv, TypeOK
      <4>3. r.status = "imported" <=> batches[r.batch].status = "imported"
        BY DEF IInv, SealedWithItsBatch
      <4> QED
        BY <2>2, <4>1, <4>2, <4>3
    <3> QED
      BY <3>1 DEF SealedWithItsBatch
  <2>11. EvidenceStands'
    <3>1. ASSUME NEW q \in importing.quoted PROVE Stands(q)
      BY <1>2 DEF IInv, QuotesStand, Importable
    <3> QED
      BY <1>0, <2>1, <3>1 DEF IInv, EvidenceStands, Stands
  <2>12. ASSUME NEW b \in DOMAIN batches PROVE BatchOK(b)'
    <3>1. BatchOK(b)
      BY DEF IInv
    <3>2. batches'[b].status = "blocked" => batches[b].status = "blocked"
      BY <2>2
    <3>3. \A e \in b : e.role = "new" =>
            \E n \in rows' : n.session = e.session /\ n.pos = e.pos /\ n.gen = e.gen
      <4>1. ASSUME NEW e \in b, e.role = "new"
            PROVE  \E n \in rows' : n.session = e.session /\ n.pos = e.pos /\ n.gen = e.gen
        <5>1. PICK r \in rows : r.session = e.session /\ r.pos = e.pos /\ r.gen = e.gen
          BY <3>1, <4>1 DEF BatchOK
        <5> QED
          BY <2>6, <5>1
      <4> QED
        BY <4>1
    <3> QED
      BY <1>0, <3>1, <3>2, <3>3 DEF BatchOK
  <2> QED
    BY <2>2, <2>7, <2>8, <2>9, <2>10, <2>11, <2>12 DEF IInv
<1> QED
  BY <1>1, <1>2

\* The invariant is kept by every step.
LEMMA StepIInv ==
  ASSUME IInv, [Next]_vars
  PROVE  IInv'
<1>1. ASSUME UNCHANGED <<source, ledger, run, importing>> PROVE IInv'
  <2>1. \A q : Stands(q)' <=> Stands(q)
    BY <1>1 DEF Stands
  <2> QED
    BY <1>1, <2>1, SourceIInv DEF IInv, TypeOK, EvidenceStands
<1>2. CASE UNCHANGED vars
  BY <1>1, <1>2 DEF vars
<1>3. ASSUME NEW s \in Sessions, NEW p \in Position, Settle(s, p) PROVE IInv'
  BY <1>1, <1>3 DEF Settle
<1>4. ASSUME NEW s \in Sessions, Append_(s) \/ Upgrade(s) \/ Reset(s) PROVE IInv'
  BY <1>4, AppendIInv, UpgradeIInv, ResetIInv
<1>5. ASSUME NEW S \in SUBSET Sessions, NEW full \in BOOLEAN, Collect(S, full) PROVE IInv'
  BY <1>5, CollectIInv
<1>6. ASSUME NEW B \in SUBSET DOMAIN batches, NEW result \in Results,
             NEW quoted \in {{}} \cup {{e} : e \in UNION B}, CheckImport(B, result, quoted)
      PROVE  IInv'
  <2>1. quoted \in SUBSET UNION B
    OBVIOUS
  <2> QED
    BY <1>6, <2>1, CheckImportIInv
<1> QED
  BY <1>2, <1>3, <1>4, <1>5, <1>6, PrepareIInv, CommitImportIInv DEF Next

\* The ledger of the review and the transcripts agree, whatever gets between the two
\* halves of an extract or of an import.
THEOREM Invariance == Spec => []IInv
  BY InitIInv, StepIInv, PTL DEF Spec

\* A claim's quotes stay in the transcript: parser upgrades keep off sessions with
\* claims, or with batches an import may still bring back.
THEOREM EvidenceAlwaysStands == Spec => []EvidenceStands
<1>1. IInv => EvidenceStands
  BY DEF IInv
<1> QED
  BY <1>1, Invariance, PTL

\* Messages and their batch are sealed together.
THEOREM SealsCoverTheirBatch == Spec => []SealedWithItsBatch
<1>1. IInv => SealedWithItsBatch
  BY DEF IInv
<1> QED
  BY <1>1, Invariance, PTL

\* An extract that goes through leaves every message it read on record.
LEMMA PrepareSkipsNothing ==
  ASSUME IInv, Prepare, Proceeds(run.corpus, run.full), NEW m \in run.corpus
  PROVE  \E r \in rows' : (Attended(m, r) \/ Collateral(m, r))'
<1>1. PICK starts \in Cuts(Export(run.corpus)) : Record(Groups(Export(run.corpus), starts))
  BY DEF Prepare
<1> DEFINE groups == Groups(Export(run.corpus), starts)
           fresh  == groups \ DOMAIN batches
<1>2. /\ \A b \in fresh : batches'[b].status = "prepared"
      /\ \A b \in DOMAIN batches : batches'[b] = batches[b]
      /\ rows' = rows \cup UNION {NewRows(b) : b \in fresh}
      /\ generation' = generation
  BY <1>1 DEF Record, Prepare
<1>3. m \in Message
  BY DEF IInv, TypeOK
<1>4. CASE Unseen(m)
  <2> DEFINE e == Entry(m, "new")
  <2>1. /\ e \in Export(run.corpus)
        /\ e.session = m.session /\ e.pos = m.pos /\ e.text = m.text
        /\ e.role = "new" /\ e.gen = generation[m.session]
    BY <1>4, ExportEntries, EntryFields
  <2>2. \A x \in Export(run.corpus) : x.session \in Sessions /\ x.pos \in Position
    <3>1. ASSUME NEW x \in Export(run.corpus) PROVE x.session \in Sessions /\ x.pos \in Position
      <4>1. PICK n \in run.corpus : x = Entry(n, "new") \/ x = Entry(n, "context")
        BY ExportEntries
      <4>2. n \in Message /\ x.session = n.session /\ x.pos = n.pos
        BY <4>1, EntryFields DEF IInv, TypeOK
      <4> QED
        BY <4>2 DEF Message
    <3> QED
      BY <3>1
  <2>3. PICK G \in groups : e \in G
    BY <2>1, <2>2, GroupsCover
  <2>4. G \notin DOMAIN batches
    <3> SUFFICES ASSUME G \in DOMAIN batches PROVE FALSE
      OBVIOUS
    <3>1. PICK r \in rows : r.session = e.session /\ r.pos = e.pos /\ r.gen = e.gen
      BY <2>1, <2>3 DEF IInv, BatchOK
    <3> QED
      BY <1>4, <2>1, <3>1 DEF Unseen, Seen
  <2>5. PICK row \in rows' : /\ row.session = m.session /\ row.pos = m.pos /\ row.text = m.text
                           /\ row.gen = generation[m.session] /\ row.batch = G
    <3>1. [session |-> e.session, pos |-> e.pos, gen |-> e.gen, text |-> e.text,
           batch |-> G, status |-> "prepared"] \in rows'
      BY <1>2, <2>1, <2>3, <2>4 DEF NewRows
    <3> QED
      BY <2>1, <3>1
  <2>6. row \in Seen(m.session)' /\ Same(row, m)
    BY <1>2, <2>5 DEF Seen, Same
  <2>7. batches'[row.batch].status # "blocked"
    BY <1>2, <2>3, <2>4, <2>5
  <2>8. Attended(m, row)'
    BY <2>6, <2>7 DEF Attended, Same
  <2> QED
    BY <2>5, <2>8
<1>5. CASE ~Unseen(m)
  <2>1. PICK r \in rows : r.session = m.session /\ r.gen = generation[m.session] /\ r.pos = m.pos
    BY <1>5 DEF Unseen, Seen
  <2>2. r \in Seen(m.session) /\ r \in rows' /\ r \in Seen(m.session)'
    BY <1>2, <2>1 DEF Seen
  <2>3. \E n \in run.corpus : Same(r, n)
    BY <2>2 DEF Proceeds, Rewritten, SessionsOf
  <2>4. Same(r, m)
    BY <2>1, <2>3 DEF IInv, OneMessage, Same
  <2>5. r.batch \in DOMAIN batches
    BY DEF IInv, TypeOK
  <2>6. CASE batches[r.batch].status # "blocked"
    BY <1>2, <2>2, <2>4, <2>5, <2>6 DEF Attended, Same
  <2>7. CASE batches[r.batch].status = "blocked"
    <3>1. PICK d \in r.batch : d.session = r.session /\ d.gen = r.gen
      BY DEF IInv, RowsInBatches
    <3>2. PICK e \in r.batch : e.gen # generation[e.session]
      BY <2>5, <2>7 DEF IInv, BatchOK
    <3>3. e.session # m.session
      <4>1. e.session = d.session => e.gen = d.gen
        BY <2>5 DEF IInv, BatchOK
      <4> QED
        BY <2>1, <3>1, <3>2, <4>1
    <3>4. Collateral(m, r)'
      BY <1>2, <2>2, <2>4, <3>2, <3>3 DEF Collateral, Same
    <3> QED
      BY <2>2, <3>4
  <2> QED
    BY <2>6, <2>7
<1> QED
  BY <1>4, <1>5

\* No message is passed over by an extract that reports no problem, but for one whose
\* batch was blocked by the reset of another session.
THEOREM NoMessageIsSkipped == Spec => NothingIsSkipped
<1>1. ASSUME IInv, [Next]_vars
      PROVE  [(run # Idle /\ run' = Idle /\ Proceeds(run.corpus, run.full)) =>
                \A m \in run.corpus : \E r \in rows' : (Attended(m, r) \/ Collateral(m, r))']_vars
  <2> SUFFICES ASSUME run # Idle, run' = Idle, Proceeds(run.corpus, run.full), NEW m \in run.corpus
               PROVE  \E r \in rows' : (Attended(m, r) \/ Collateral(m, r))'
    OBVIOUS
  <2>1. Prepare
    BY <1>1 DEF Next, vars, Append_, Upgrade, Reset, Settle, Collect, CheckImport, CommitImport
  <2> QED
    BY <1>1, <2>1, PrepareSkipsNothing
<1> QED
  BY <1>1, Invariance, PTL DEF Spec, NothingIsSkipped
=============================================================================
