---------------------------- MODULE WindowLayers ----------------------------
(***************************************************************************)
(* What hangs off the exchange windows of a session.  Every ingest writes  *)
(* the windows anew.  A deterministic classification belongs to a window   *)
(* and goes with it; `run_derive` makes the missing and the outdated ones  *)
(* and leaves a watermark, from which the health endpoint says whether     *)
(* they are up to date.  A label, by a model or by the owner, stays when   *)
(* its window goes, and is attached again to a window with the same text.  *)
(*                                                                         *)
(* The identifier of a window is <<content, n>>: a hash of the text, and   *)
(* for the n-th repetition of that text in the session a hash of both.     *)
(* A content hash is the identifier of the first occurrence.               *)
(***************************************************************************)
EXTENDS Naturals, FiniteSets, Sequences

CONSTANTS
  Contents,     \* texts of an exchange: a request and its response
  Extras,       \* values of what else the input digest covers
  MaxLen,       \* exchanges of the session
  Derivers,     \* the daemon's derive thread, a derive from the command line
  Runs,         \* extraction runs that write ux_observations
  Owner,        \* adjudications: one for each window
  MaxChanges,   \* ingests
  MaxLabels     \* labels asked for

ASSUME OwnerAssumption == Owner \notin Runs \cup Derivers

VARIABLES
  turns,        \* the exchanges of the session
  extra,        \* the rest of the digest: the model's name, tool outcomes, skills
  classes,      \* window_det_classifications: digest recorded, digest made from
  watermark,    \* derive_watermarks, and whether no run since has left windows out
  unmarked,     \* history: windows classified since by runs from another session than it
  derive,       \* each deriver between its statements
  labels,       \* ux_observations and adjudications
  writing,      \* an answer on its way to one of these tables
  changes,      \* ingests so far
  asked         \* answers asked for so far

session == <<turns, extra>>
vars == <<session, classes, watermark, unmarked, derive, labels, writing, changes, asked>>

Labellers == Runs \cup {Owner}
NoMark == [digest |-> <<>>, all |-> FALSE]
Idle == [phase |-> "idle", expected |-> <<>>, targets |-> {}, all |-> FALSE, of |-> <<>>, dirty |-> FALSE]
Nothing == [phase |-> "none", by |-> Owner, window |-> <<>>, hash |-> <<>>, status |-> "linked"]

-----------------------------------------------------------------------------
(* Windows.                                                                *)

\* build_exchange_windows
WindowId(t, i) == <<t[i], Cardinality({j \in 1..(i - 1) : t[j] = t[i]})>>
WindowsOf(t) == {WindowId(t, i) : i \in DOMAIN t}
Windows == WindowsOf(turns)
HashOf(w) == <<w[1], 0>>

\* The session's part of an input fingerprint; the rest is the window itself.
Digest == <<turns, extra>>

-----------------------------------------------------------------------------
(* Labels follow the windows: refresh_label_links.                         *)

\* Faulty: the label goes with its window.
OrphanDeletes(L, live) == {l \in L : l.status = "orphaned" \/ l.window \in live}

Orphan(L, live) ==
  {IF l.status = "linked" /\ l.window \notin live THEN [l EXCEPT !.status = "orphaned"] ELSE l : l \in L}

\* pick is what SELECT ... LIMIT 1 returns for a content hash.
Relink(L, live, pick) ==
  {IF l.hash \in DOMAIN pick /\ (l.status = "orphaned" \/ l.window \notin live)
   THEN [l EXCEPT !.window = pick[l.hash], !.status = "linked"] ELSE l : l \in L}

Linked(L, live) ==
  {IF l.window \in live THEN [l EXCEPT !.status = "linked"] ELSE l : l \in L}

Picks(live) ==
  {pick \in [{HashOf(w) : w \in live} -> live] : \A h \in DOMAIN pick : HashOf(pick[h]) = h}

\* UNIQUE (window_id, run_id), and window_id as the key of the adjudications.
Clash(L) == \E l, k \in L : l # k /\ l.by = k.by /\ l.window = k.window

\* Faulty: labels are not marked before they are attached again.
RefreshUnmarked(L, live, pick) == Linked(Relink(L, live, pick), live)

Refresh(L, live, pick) == Linked(Relink(Orphan(L, live), live, pick), live)

-----------------------------------------------------------------------------
(* Ingest.                                                                 *)

Init ==
  /\ turns \in [1..1 -> Contents]
  /\ extra \in Extras
  /\ classes = <<>>
  /\ watermark = NoMark
  /\ unmarked = {}
  /\ derive = [d \in Derivers |-> Idle]
  /\ labels = {}
  /\ writing = Nothing
  /\ changes = 0 /\ asked = 0

\* PRAGMA data_version moves when another connection commits.
Dirtied(except) ==
  [d \in Derivers |-> IF d # except /\ derive[d] # Idle THEN [derive[d] EXCEPT !.dirty = TRUE] ELSE derive[d]]

\* replace_exchange_windows in the transaction of the artifact.  When two labels
\* would share a window the statement fails and the artifact is not ingested.  The
\* rest of the digest may change, and change back: so does sessions.model.
Replace(new, kept) ==
  /\ changes < MaxChanges
  /\ \E pick \in Picks(WindowsOf(new)) :
       LET refreshed == Refresh(labels, WindowsOf(new), pick)
       IN /\ ~ Clash(refreshed)
          /\ labels' = refreshed
  /\ turns' = new /\ extra' \in Extras
  /\ classes' = [w \in kept \cap WindowsOf(new) |-> classes[w]]
  /\ derive' = Dirtied(Owner)
  /\ changes' = changes + 1
  /\ UNCHANGED <<watermark, unmarked, writing, asked>>

AppendTurn ==
  /\ Len(turns) < MaxLen
  /\ \E c \in Contents : Replace(Append(turns, c), DOMAIN classes)

\* A message without a window, a tool outcome, another name of the model: the windows
\* stay, and what is made from them.
Extend == Replace(turns, DOMAIN classes)

\* A parser upgrade deletes the windows first, and the classifications with them.
Upgrade ==
  \E n \in 0..MaxLen : \E new \in [1..n -> Contents] : Replace(new, {})

-----------------------------------------------------------------------------
(* run_derive.                                                             *)

Covered == Windows \subseteq DOMAIN classes
Stale == {w \in Windows : w \notin DOMAIN classes \/ classes[w].digest # Digest}

\* Restricted to some windows (the daemon), to the stale ones, or forced on all.
Look(d, chosen, force) ==
  LET targets == IF force THEN Windows ELSE Stale \cap chosen
      all == force \/ Stale \subseteq chosen
  IN /\ derive[d] = Idle
     /\ force \/ Stale # {} \/ ~ (Covered /\ watermark.digest = Digest)
     /\ derive' = [derive EXCEPT ![d] =
                     [phase |-> IF ~ force /\ targets = {} /\ Covered THEN "mark" ELSE "load",
                      expected |-> Digest, targets |-> targets, all |-> all, of |-> <<>>, dirty |-> FALSE]]
     /\ UNCHANGED <<session, classes, watermark, unmarked, labels, writing, changes, asked>>

\* PRAGMA data_version, then the texts and tools of the windows.
Load(d) ==
  /\ derive[d].phase = "load"
  /\ derive' = [derive EXCEPT ![d].phase = "check", ![d].of = Digest, ![d].dirty = FALSE]
  /\ UNCHANGED <<session, classes, watermark, unmarked, labels, writing, changes, asked>>

\* DeterministicInputChanged, a transcript that cannot be read, a daemon that stops;
\* also between the two transactions.
GiveUp(d) ==
  /\ derive[d] # Idle
  /\ derive' = [derive EXCEPT ![d] = Idle]
  /\ UNCHANGED <<session, classes, watermark, unmarked, labels, writing, changes, asked>>

\* The fingerprints must be the expected ones.
Check(d) ==
  /\ derive[d].phase = "check"
  /\ derive[d].expected = Digest
  /\ derive' = [derive EXCEPT ![d].phase = "write"]
  /\ UNCHANGED <<session, classes, watermark, unmarked, labels, writing, changes, asked>>

\* Under the lock, if nothing was committed since Load.
Classify(d) ==
  /\ derive[d].phase = "write"
  /\ ~ derive[d].dirty
  /\ classes' = [w \in DOMAIN classes \cup derive[d].targets |->
                   IF w \in derive[d].targets
                   THEN [digest |-> derive[d].expected, of |-> derive[d].of] ELSE classes[w]]
  /\ watermark' = [watermark EXCEPT !.all = @ /\ derive[d].all]
  /\ unmarked' = IF derive[d].expected = watermark.digest
                 THEN unmarked \ derive[d].targets ELSE unmarked \cup derive[d].targets
  /\ derive' = [Dirtied(d) EXCEPT ![d].phase = "mark"]
  /\ UNCHANGED <<session, labels, writing, changes, asked>>

\* Faulty: the fingerprint of the corpus as it is by now.
MarkNow(d) ==
  /\ derive[d].phase = "mark"
  /\ watermark' = [digest |-> Digest, all |-> derive[d].all]
  /\ unmarked' = {}
  /\ derive' = [Dirtied(d) EXCEPT ![d] = Idle]
  /\ UNCHANGED <<session, classes, labels, writing, changes, asked>>

\* The watermark, in a transaction of its own.
Mark(d) ==
  /\ derive[d].phase = "mark"
  /\ watermark' = [digest |-> derive[d].expected, all |-> derive[d].all]
  /\ unmarked' = {}
  /\ derive' = [Dirtied(d) EXCEPT ![d] = Idle]
  /\ UNCHANGED <<session, classes, labels, writing, changes, asked>>

\* derived_freshness
Fresh == watermark.digest = Digest /\ Covered

-----------------------------------------------------------------------------
(* Labels.                                                                 *)

\* A window goes into a packet, or into the owner's queue.
Ask(by, w) ==
  /\ writing = Nothing /\ asked < MaxLabels
  /\ writing' = [Nothing EXCEPT !.phase = "asked", !.by = by, !.window = w]
  /\ asked' = asked + 1
  /\ UNCHANGED <<session, classes, watermark, unmarked, derive, labels, changes>>

\* The answer arrives: the window is looked up before the transaction.  The owner's
\* is refused when it is gone; a model's is kept under the identifier alone.
Answer ==
  /\ writing.phase = "asked"
  /\ LET live == writing.window \in Windows
     IN writing' = IF live \/ writing.by # Owner
                   THEN [writing EXCEPT !.phase = "read",
                           !.hash = IF live THEN HashOf(writing.window) ELSE writing.window,
                           !.status = IF live THEN "linked" ELSE "orphaned"]
                   ELSE Nothing
  /\ UNCHANGED <<session, classes, watermark, unmarked, derive, labels, changes, asked>>

\* INSERT OR REPLACE: the row of this run and window, by its key or its link.
Replaced(l) ==
  /\ l.by = writing.by
  /\ l.window = writing.window \/ (l.by # Owner /\ l.asked = writing.window)

\* The row keeps the window it was asked for in its key.
Insert ==
  /\ writing.phase = "read"
  /\ labels' = {l \in labels : ~ Replaced(l)}
                 \cup {[by |-> writing.by, asked |-> writing.window, window |-> writing.window,
                        hash |-> writing.hash, status |-> writing.status]}
  /\ writing' = Nothing
  /\ derive' = Dirtied(Owner)
  /\ UNCHANGED <<session, classes, watermark, unmarked, changes, asked>>

Next ==
  \/ AppendTurn \/ Extend \/ Upgrade
  \/ \E d \in Derivers :
       \/ \E chosen \in SUBSET Windows, force \in BOOLEAN : Look(d, chosen, force)
       \/ Load(d) \/ GiveUp(d) \/ Check(d) \/ Classify(d) \/ Mark(d)
  \/ \E by \in Labellers, w \in Windows : Ask(by, w)
  \/ Answer \/ Insert

Spec == Init /\ [][Next]_vars

-----------------------------------------------------------------------------
\* What the health endpoint calls up to date is: every window has a classification
\* made from the session as it is, whatever ingests a run overlapped with (one derive
\* at a time).  But for two cases: a restricted run left stale windows; and a run has
\* classified but not, or not yet, left its watermark, and the session is again as the
\* watermark before says: the windows that run classified are from in between.
FreshIsFresh ==
  Fresh /\ watermark.all => \A w \in Windows : classes[w].of = Digest \/ w \in unmarked

\* "re-ingest upserts windows and re-links labels": after every ingest a label is
\* linked exactly when its window or one with its text is there, and to such a one;
\* also a label whose window went between the look and the insert.  A model's label
\* that found its window gone keeps no text but its identifier.
LinksSettle ==
  [][turns' # turns \/ changes' # changes =>
       (\A l \in labels :
          /\ l.status = "linked" <=> \E w \in Windows : w = l.window \/ HashOf(w) = l.hash
          /\ l.status = "linked" => l.window \in Windows /\ HashOf(l.window) = HashOf(l.asked))']_vars

\* A verdict on a text stays until the same run, or the owner, gives another on it.
LabelsSurvive ==
  [][\A l \in labels : \E k \in labels' : k.by = l.by /\ HashOf(k.asked) = HashOf(l.asked)]_vars
=============================================================================
