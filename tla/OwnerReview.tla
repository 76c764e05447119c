---------------------------- MODULE OwnerReview ----------------------------
(***************************************************************************)
(* The manual review of transcripts by their owner.  `insights-extract`    *)
(* collects the selected corpus, compares it with what was exported        *)
(* before and records batches of new messages; `insights-import` brings    *)
(* back claims that quote a batch and seals it; `insights-reset-session`   *)
(* starts a session over; an ingest that upgrades a parser may rewrite a   *)
(* session unless review or claims rest on it.                             *)
(*                                                                         *)
(* An identifier that is a hash of some content is that content: a batch   *)
(* is the set of its messages.  A message is known by its position, which  *)
(* is also its seq; its role is part of its text.  The command rolls back  *)
(* a preparation that blocked a session, so the status blocked_rewrite is  *)
(* never committed and is not kept here.                                   *)
(***************************************************************************)
EXTENDS Naturals, FiniteSets, Sequences

CONSTANTS
  Sessions,       \* numbers: exports are sorted by session
  MaxLen,         \* messages of a session
  Texts,          \* texts a parser can find at a position, numbers
  Context,        \* OWNER_NOTE_CONTEXT_MESSAGES
  Results,        \* hashes of reviewed results
  MaxChanges,     \* messages, tool outcomes and parser upgrades that arrive
  MaxResets,      \* resets by the owner
  MaxBatches,     \* batches on record
  Blank           \* a position without text

ASSUME SessionAssumption == Sessions \subseteq Nat /\ Texts # {} /\ Blank \notin Texts
ASSUME LengthAssumption == MaxLen \in Nat

VARIABLES
  source,         \* per session: the texts of its messages, transcript and metadata
  settled,        \* messages whose tool outcome is known (part of context_facts)
  generation,     \* owner_insight_session_state
  rows,           \* owner_insight_seen_messages
  batches,        \* owner_insight_batches: status and result of each batch
  claims,         \* claim_evidence: the quoted messages
  run,            \* an insights-extract between the corpus and its transaction
  importing,      \* an insights-import between its checks and its SAVEPOINT
  changes         \* changes of a transcript so far

ledger == <<generation, rows, batches, claims>>
vars == <<source, settled, ledger, run, importing, changes>>

Position == 1..MaxLen
Idle == [phase |-> "idle", corpus |-> {}, full |-> FALSE]
NoImport == [batches |-> {}, result |-> 0, quoted |-> {}]

-----------------------------------------------------------------------------
(* The corpus and the ledger.                                              *)

\* The messages of the sessions S that have text.
Corpus(S) ==
  {[session |-> x[1], pos |-> x[2], text |-> source[x[1]][x[2]], settled |-> x \in settled] :
     x \in {y \in S \X Position : y[2] <= Len(source[y[1]]) /\ source[y[1]][y[2]] # Blank}}

SessionsOf(messages) == {m.session : m \in messages}

\* Faulty: the rows of every generation.
SeenEver(s) == {r \in rows : r.session = s}

\* The rows of this generation of a session.
Seen(s) == {r \in rows : r.session = s /\ r.gen = generation[s]}

\* A message that was not exported in this generation of its session.
Unseen(m) == \A r \in Seen(m.session) : r.pos # m.pos

\* The messages in front of a new one go with it.
Before(m, corpus) ==
  {c \in corpus : /\ c.session = m.session /\ c.pos < m.pos
                  /\ Cardinality({d \in corpus : d.session = m.session /\ d.pos \in c.pos .. (m.pos - 1)}) <= Context}

\* What a batch keeps, and hashes, of a message.
Entry(m, role) ==
  [session |-> m.session, pos |-> m.pos, text |-> m.text, settled |-> m.settled,
   role |-> role, gen |-> generation[m.session]]

Export(corpus) ==
  LET new == {m \in corpus : Unseen(m)}
  IN {Entry(m, "new") : m \in new}
     \cup {Entry(m, "context") : m \in UNION {Before(n, corpus) : n \in new} \ new}

\* Batches are consecutive in the order of the export: an entry starts a batch.
Rank(e) == e.session * (MaxLen + 1) + e.pos
Groups(export, starts) ==
  {{e \in export : /\ Rank(e) >= Rank(h)
                   /\ \A g \in starts : Rank(g) <= Rank(h) \/ Rank(e) < Rank(g)} : h \in starts}
Cuts(export) ==
  {starts \in SUBSET export : \A e \in export : \E h \in starts : Rank(h) <= Rank(e)}

\* Prepared batches of earlier exports that this selection can resume.
Resumed(corpus, full) ==
  {b \in DOMAIN batches : /\ batches[b].status = "prepared"
                          /\ full \/ SessionsOf(b) \subseteq SessionsOf(corpus)}

Same(e, m) == m.session = e.session /\ m.pos = e.pos /\ m.text = e.text

\* The sessions whose reviewed history is not the selected one: a reviewed message
\* is gone or changed, a new one stands before it, or a prepared batch is outdated.
Rewritten(corpus, full) ==
  {s \in SessionsOf(corpus) :
     \/ \E r \in Seen(s) : ~ \E m \in corpus : Same(r, m)
     \/ \E m \in corpus : m.session = s /\ Unseen(m) /\ \E r \in Seen(s) : m.pos <= r.pos}
  \cup {s \in SessionsOf(rows) : full /\ s \notin SessionsOf(corpus)}
  \cup {e.session : e \in {x \in UNION Resumed(corpus, full) : ~ \E m \in corpus : Same(x, m)}}

\* A batch that is offered again must still have the hash it was recorded with.
Rebuilt(b, corpus) ==
  {Entry(x[1], x[2].role) : x \in {y \in corpus \X b : Same(y[2], y[1])}}

Proceeds(corpus, full) ==
  /\ Rewritten(corpus, full) = {}
  /\ \A b \in Resumed(corpus, full) : Rebuilt(b, corpus) = b

\* A parser upgrade may not rewrite what a review or a claim rests on.
HasProvenance(s) ==
  \/ \E b \in DOMAIN batches : s \in SessionsOf(b) /\ batches[b].status \in {"prepared", "imported"}
  \/ \E r \in rows : /\ r.session = s
                     /\ r.status = "imported" \/ r.gen = generation[s]
  \/ \E c \in claims : c.session = s

-----------------------------------------------------------------------------
(* The transcripts.                                                        *)

Init ==
  /\ source \in [Sessions -> {<<t>> : t \in Texts}]
  /\ settled = {}
  /\ generation = [s \in Sessions |-> 1]
  /\ rows = {}
  /\ batches = <<>>
  /\ claims = {}
  /\ run = Idle
  /\ importing = NoImport
  /\ changes = 0

Append_(s) ==
  /\ changes < MaxChanges /\ Len(source[s]) < MaxLen
  /\ \E t \in Texts : source' = [source EXCEPT ![s] = Append(@, t)]
  /\ changes' = changes + 1
  /\ UNCHANGED <<settled, ledger, run, importing>>

\* The outcome of a tool call is recorded after the message that made it.
Settle(s, p) ==
  /\ p <= Len(source[s]) /\ <<s, p>> \notin settled
  /\ changes < MaxChanges
  /\ settled' = settled \cup {<<s, p>>}
  /\ changes' = changes + 1
  /\ UNCHANGED <<source, ledger, run, importing>>

\* rewrite_source_backed_parse_result
Upgrade(s) ==
  /\ changes < MaxChanges
  /\ ~ HasProvenance(s)
  /\ \E n \in Position : \E new \in [1..n -> Texts \cup {Blank}] : source' = [source EXCEPT ![s] = new]
  /\ changes' = changes + 1
  /\ UNCHANGED <<settled, ledger, run, importing>>

-----------------------------------------------------------------------------
(* insights-extract                                                        *)

\* The corpus is read before the transaction.  S is what the selection and the
\* visible projection (shadows, merges, which are decided elsewhere) leave of it;
\* only the command without a selection takes an absent session for a lost one.
Collect(S, full) ==
  /\ run = Idle
  /\ run' = [phase |-> "collected", corpus |-> Corpus(S), full |-> full]
  /\ UNCHANGED <<source, settled, ledger, importing, changes>>

NewRows(b) ==
  {[session |-> e.session, pos |-> e.pos, gen |-> e.gen, text |-> e.text,
    batch |-> b, status |-> "prepared"] : e \in {x \in b : x.role = "new"}}

\* One batch for each group that is not on record, a row for each new message in it.
Record(groups) ==
  LET fresh == groups \ DOMAIN batches
  IN /\ batches' = [b \in DOMAIN batches \cup fresh |->
                      IF b \in fresh THEN [status |-> "prepared", result |-> 0] ELSE batches[b]]
     /\ rows' = rows \cup UNION {NewRows(b) : b \in fresh}

\* Nothing is written when a session is blocked or a batch cannot be rebuilt.
Prepare ==
  /\ run.phase = "collected"
  /\ IF Proceeds(run.corpus, run.full)
     THEN \E starts \in Cuts(Export(run.corpus)) :
            /\ Cardinality(DOMAIN batches) + Cardinality(starts) <= MaxBatches
            /\ Record(Groups(Export(run.corpus), starts))
     ELSE UNCHANGED <<rows, batches>>
  /\ run' = Idle
  /\ UNCHANGED <<source, settled, generation, claims, importing, changes>>

-----------------------------------------------------------------------------
(* insights-reset-session                                                  *)

Resets == Cardinality({x \in Sessions \X (1..MaxResets) : x[2] < generation[x[1]]})

\* Faulty: the session starts over in the same generation.
ResetInPlace(s) ==
  /\ Resets < MaxResets
  /\ batches' = [b \in DOMAIN batches |->
                   IF batches[b].status = "prepared" /\ s \in SessionsOf(b)
                   THEN [batches[b] EXCEPT !.status = "blocked"] ELSE batches[b]]
  /\ UNCHANGED <<source, settled, generation, rows, claims, run, importing, changes>>

Reset(s) ==
  /\ Resets < MaxResets
  /\ generation' = [generation EXCEPT ![s] = @ + 1]
  /\ batches' = [b \in DOMAIN batches |->
                   IF batches[b].status = "prepared" /\ s \in SessionsOf(b)
                   THEN [batches[b] EXCEPT !.status = "blocked"] ELSE batches[b]]
  /\ UNCHANGED <<source, settled, rows, claims, run, importing, changes>>

-----------------------------------------------------------------------------
(* insights-import                                                         *)

Importable(B, result) ==
  \A b \in B : /\ batches[b].status # "blocked"
               /\ batches[b].result \in {0, result}

\* The quoted messages are those of the batches and stand in the source now.
CheckImport(B, result, quoted) ==
  /\ importing = NoImport
  /\ B # {} /\ Importable(B, result)
  /\ \A e \in quoted : e.pos <= Len(source[e.session]) /\ source[e.session][e.pos] = e.text
  /\ importing' = [batches |-> B, result |-> result,
                   quoted |-> {[session |-> e.session, pos |-> e.pos, text |-> e.text] : e \in quoted}]
  /\ UNCHANGED <<source, settled, ledger, run, changes>>

\* Faulty: every prepared row of the sessions of the batches.
SealedBySession(r, B) == r.session \in SessionsOf(UNION B) /\ r.status = "prepared"

\* UPDATE ... WHERE first_batch_id = ? AND status = 'prepared'
Sealed(r, B) == r.batch \in B /\ r.status = "prepared"

\* Faulty: trusts the check made before the SAVEPOINT.
CommitImportUnchecked ==
  /\ importing # NoImport
  /\ claims' = claims \cup importing.quoted
  /\ UNCHANGED <<batches, rows>>
  /\ importing' = NoImport
  /\ UNCHANGED <<source, settled, generation, run, changes>>

\* One SAVEPOINT: the claims, the batches and their rows, or nothing.  A claim with
\* the key of an earlier one takes its place, and its evidence.
CommitImport ==
  /\ importing # NoImport
  /\ IF Importable(importing.batches, importing.result)
     THEN /\ \E replaced \in SUBSET claims :
               claims' = (IF importing.quoted = {} THEN claims ELSE claims \ replaced) \cup importing.quoted
          /\ batches' = [b \in DOMAIN batches |->
                           IF b \in importing.batches
                           THEN [status |-> "imported", result |-> importing.result] ELSE batches[b]]
          /\ rows' = {IF Sealed(r, importing.batches) THEN [r EXCEPT !.status = "imported"] ELSE r : r \in rows}
     ELSE UNCHANGED <<claims, batches, rows>>
  /\ importing' = NoImport
  /\ UNCHANGED <<source, settled, generation, run, changes>>

Next ==
  \/ \E s \in Sessions : Append_(s) \/ Upgrade(s) \/ Reset(s)
  \/ \E s \in Sessions, p \in Position : Settle(s, p)
  \/ \E S \in SUBSET Sessions, full \in BOOLEAN : Collect(S, full)
  \/ Prepare
  \/ \E B \in SUBSET DOMAIN batches, result \in Results :
       \E quoted \in {{}} \cup {{e} : e \in UNION B} : CheckImport(B, result, quoted)
  \/ CommitImport

Spec == Init /\ [][Next]_vars

-----------------------------------------------------------------------------
\* A message on record in this generation of its session, in a batch a reviewer
\* has answered or can still answer.
Attended(m, r) ==
  /\ r \in Seen(m.session) /\ Same(r, m)
  /\ batches[r.batch].status # "blocked"

\* The batch of this message went with the reset of another session it also holds.
Collateral(m, r) ==
  /\ r \in Seen(m.session) /\ Same(r, m)
  /\ \E e \in r.batch : e.session # m.session /\ e.gen # generation[e.session]

\* "Prepare every previously unimported packet message in bounded batches": an
\* extract that reports no problem leaves every message of its corpus, with the text
\* it read, in a batch that is sealed or can be, even when sessions were reset,
\* rewritten or hidden before; but for a message whose batch was blocked by the
\* reset of another session.
NothingIsSkipped ==
  [][(run # Idle /\ run' = Idle /\ Proceeds(run.corpus, run.full)) =>
       \A m \in run.corpus : \E r \in rows' : (Attended(m, r) \/ Collateral(m, r))']_vars

\* The same without the exception, as the messages of the command claim.
EveryMessageIsReviewable ==
  [][(run # Idle /\ run' = Idle /\ Proceeds(run.corpus, run.full)) =>
       \A m \in run.corpus : \E r \in rows' : Attended(m, r)']_vars

\* Exactly the messages a batch brought are sealed with it: none is taken for
\* reviewed when its batch is not imported, and none of an imported batch is left.
SealedWithItsBatch ==
  \A r \in rows : r.status = "imported" <=> batches[r.batch].status = "imported"

\* A quote is where it was found.
Stands(q) == q.pos <= Len(source[q.session]) /\ source[q.session][q.pos] = q.text

\* What a claim quotes stays in the transcript: no parser upgrade gets between the
\* export, the check of the quotes, a reset and the import.
EvidenceStands == \A c \in claims : Stands(c)

-----------------------------------------------------------------------------
(* The inductive invariant.                                                *)

Quote   == [session : Sessions, pos : Position, text : Texts \cup {Blank}]
Message == [session : Sessions, pos : Position, text : Texts \cup {Blank}, settled : BOOLEAN]

TypeOK ==
  /\ source \in [Sessions -> Seq(Texts \cup {Blank})]
  /\ generation \in [Sessions -> Nat]
  /\ \A b \in DOMAIN batches :
       batches[b] \in [status : {"prepared", "imported", "blocked"}, result : Results \cup {0}]
  /\ rows \subseteq [session : Sessions, pos : Position, gen : Nat, text : Texts \cup {Blank},
                   batch : DOMAIN batches, status : {"prepared", "imported"}]
  /\ claims \subseteq Quote
  /\ importing.quoted \subseteq Quote /\ importing.result \in Results \cup {0}
  /\ run.corpus \subseteq Message

\* A corpus holds one message at a position.
OneMessage == \A m, n \in run.corpus : m.session = n.session /\ m.pos = n.pos => m = n

\* A batch was cut from one generation of each of its sessions, and it has a row
\* for each message that was new; it is blocked only when a session in it was reset.
BatchOK(b) ==
  /\ \A e \in b : /\ e.session \in Sessions /\ e.pos \in Position
                  /\ e.text \in Texts \cup {Blank}
                  /\ e.gen \in Nat /\ e.gen <= generation[e.session]
  /\ \A d, e \in b : d.session = e.session => d.gen = e.gen
  /\ \A e \in b : e.role = "new" =>
       \E r \in rows : r.session = e.session /\ r.pos = e.pos /\ r.gen = e.gen
  /\ batches[b].status = "blocked" => \E e \in b : e.gen # generation[e.session]

RowsInBatches == \A r \in rows : \E e \in r.batch : e.session = r.session /\ e.gen = r.gen

\* Until one of its batches is blocked, an import under way quotes what stands.
QuotesStand ==
  \A q \in importing.quoted :
    \E b \in importing.batches \cap DOMAIN batches :
      /\ q.session \in SessionsOf(b)
      /\ Stands(q) \/ batches[b].status = "blocked"

IInv ==
  /\ TypeOK /\ OneMessage /\ RowsInBatches
  /\ \A b \in DOMAIN batches : BatchOK(b)
  /\ SealedWithItsBatch /\ EvidenceStands /\ QuotesStand
=============================================================================
