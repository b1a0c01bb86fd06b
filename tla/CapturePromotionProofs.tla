----------------------- MODULE CapturePromotionProofs -----------------------
(***************************************************************************)
(* Proofs about CapturePromotion: its types, that no draft kept in         *)
(* IndexedDB is lost before the server has it, and that its file becomes   *)
(* one evidence object, extracted once, for any number of tabs, drafts,    *)
(* reloads and storages.                                                   *)
(***************************************************************************)
EXTENDS CapturePromotion, SequenceTheorems, TLAPS

-----------------------------------------------------------------------------
(* The inductive invariant.                                                *)

\* A file that a row or a promotion of a draft carries: the draft's own, or none when
\* the draft is kept where files are stripped.
OfDraft(d, file) == file = drafts[d].file \/ (file = NoFile /\ drafts[d].storage # "indexeddb")

\* Every draft is listed, queued and kept where the user was told it is.
QueueInv ==
  /\ drafts \in Seq([file : Files, tab : Tabs, storage : Storages])
  /\ stored \subseteq DOMAIN drafts
  /\ memory \in [Tabs -> SUBSET (DOMAIN drafts)]
  /\ session \in [Tabs -> SUBSET (DOMAIN drafts)]
  /\ queued \in [Tabs -> SUBSET (DOMAIN drafts)]
  /\ shown \in [Tabs -> SUBSET Rows]
  /\ reloads \in 0..MaxReloads
  /\ \A d \in stored : drafts[d].storage = "indexeddb"
  /\ \A t \in Tabs : \A d \in memory[t] \cup session[t] : drafts[d].storage # "indexeddb"
  /\ \A t \in Tabs : \A row \in shown[t] : row.draft \in DOMAIN drafts /\ OfDraft(row.draft, row.file)

\* The hash of an evidence object is of the file of the draft it came from.
HashOfDraft(e) ==
  LET draft == drafts[evidence[e].draft]
  IN  /\ evidence[e].draft \in DOMAIN drafts
      /\ evidence[e].hash \in {NoFile, draft.file}
      /\ HashAvailable /\ draft.storage = "indexeddb" => evidence[e].hash = draft.file

\* No content is there twice, and only evidence that exists was asked for, once.
ServerInv ==
  /\ evidence \in Seq([hash : Files, draft : Nat])
  /\ asked \in Seq(Nat)
  /\ \A e \in DOMAIN evidence : HashOfDraft(e)
  /\ \A e, f \in DOMAIN evidence :
        evidence[e].hash = evidence[f].hash /\ evidence[e].hash # NoFile => e = f
  /\ \A i \in DOMAIN asked : asked[i] \in DOMAIN evidence
  /\ ExtractedAtMostOnce

\* A promotion past the create has its evidence on the server.
RunOK(d, run) ==
  /\ run \in Runs
  /\ OfDraft(d, run.file)
  /\ run.phase # "creating" => run.evidence \in DOMAIN evidence /\ Created(d)

RunsInv ==
  /\ DOMAIN runs = Tabs
  /\ \A t \in Tabs : DOMAIN runs[t] \subseteq DOMAIN drafts
  /\ \A t \in Tabs : \A d \in DOMAIN runs[t] : RunOK(d, runs[t][d])

\* A promotion that has yet to ask for the extraction of what it created is the only
\* one to ask for it.
WillAsk(run) == run.phase # "creating" /\ ~run.deduped

AskInv ==
  /\ \A t \in Tabs : \A d \in DOMAIN runs[t] :
        WillAsk(runs[t][d]) => \A i \in DOMAIN asked : asked[i] # runs[t][d].evidence
  /\ \A t, u \in Tabs : \A d \in DOMAIN runs[t], c \in DOMAIN runs[u] :
        WillAsk(runs[t][d]) /\ WillAsk(runs[u][c]) /\ runs[t][d].evidence = runs[u][c].evidence
        => t = u /\ d = c

CaptureInv == QueueInv /\ ServerInv /\ RunsInv /\ AskInv /\ PersistentDraftKept

-----------------------------------------------------------------------------
(* The registry of running promotions.                                     *)

\* With puts one promotion into a tab's registry and leaves the others.
LEMMA WithRun ==
  ASSUME DOMAIN runs = Tabs, NEW t \in Tabs, NEW d, NEW run
  PROVE  /\ DOMAIN With(t, d, run) = Tabs
         /\ DOMAIN With(t, d, run)[t] = DOMAIN runs[t] \cup {d}
         /\ With(t, d, run)[t][d] = run
         /\ \A x \in DOMAIN runs[t] \ {d} : With(t, d, run)[t][x] = runs[t][x]
         /\ \A u \in Tabs \ {t} : With(t, d, run)[u] = runs[u]
  BY DEF With

\* Settled takes one out and leaves the others.
LEMMA SettledRun ==
  ASSUME DOMAIN runs = Tabs, NEW t \in Tabs, NEW d
  PROVE  /\ DOMAIN Settled(t, d) = Tabs
         /\ DOMAIN Settled(t, d)[t] = DOMAIN runs[t] \ {d}
         /\ \A x \in DOMAIN runs[t] \ {d} : Settled(t, d)[t][x] = runs[t][x]
         /\ \A u \in Tabs \ {t} : Settled(t, d)[u] = runs[u]
  BY DEF Settled

\* Captures and creations only add to the drafts and to the evidence.
Grows ==
  /\ DOMAIN drafts \subseteq DOMAIN drafts'
  /\ \A d \in DOMAIN drafts : drafts'[d] = drafts[d]
  /\ DOMAIN evidence \subseteq DOMAIN evidence'
  /\ \A e \in DOMAIN evidence : evidence'[e] = evidence[e]

\* What was created stays created, and a promotion that was sound stays so.
LEMMA StillOK ==
  ASSUME Grows, NEW d \in DOMAIN drafts, NEW run
  PROVE  (Created(d) => Created(d)') /\ (RunOK(d, run) => RunOK(d, run)')
  BY DEF Grows, Created, RunOK, OfDraft

\* The promotions of the registry stay sound when one is put into it that is.

\* A registry that only loses promotions, and asks for nothing, stays sound.
LEMMA RegistryShrinks ==
  ASSUME RunsInv, AskInv, Grows, asked' = asked, DOMAIN runs' = Tabs,
         \A u \in Tabs : /\ DOMAIN runs'[u] \subseteq DOMAIN runs[u]
                         /\ \A x \in DOMAIN runs'[u] : runs'[u][x] = runs[u][x]
  PROVE  RunsInv' /\ AskInv'
<1>1. RunsInv'
  <2>1. \A u \in Tabs : DOMAIN runs'[u] \subseteq DOMAIN drafts'
    BY DEF RunsInv, Grows
  <2>2. ASSUME NEW u \in Tabs, NEW x \in DOMAIN runs'[u] PROVE RunOK(x, runs[u][x])'
    <3>1. x \in DOMAIN drafts /\ RunOK(x, runs[u][x])
      BY <2>2 DEF RunsInv
    <3>2. PICK run : run = runs[u][x] /\ runs'[u][x] = run
      BY <2>2
    <3>3. RunOK(x, run)'
      BY <3>1, <3>2, StillOK
    <3> QED
      BY <3>2, <3>3 DEF RunOK, OfDraft, Created
  <2> QED
    BY <2>1, <2>2 DEF RunsInv
<1>2. AskInv'
  BY DEF AskInv
<1> QED
  BY <1>1, <1>2

\* A promotion d of tab t is put into the registry, and the others stay.
Puts(t, d, run) ==
  /\ DOMAIN runs' = Tabs
  /\ DOMAIN runs'[t] = DOMAIN runs[t] \cup {d}
  /\ runs'[t][d] = run
  /\ \A x \in DOMAIN runs[t] \ {d} : runs'[t][x] = runs[t][x]
  /\ \A u \in Tabs \ {t} : runs'[u] = runs[u]

\* It stays sound when the promotion is, and asks for what no other will ask for.
LEMMA RegistryPuts ==
  ASSUME RunsInv, AskInv, Grows, asked' = asked,
         NEW t \in Tabs, NEW d \in DOMAIN drafts, NEW run, Puts(t, d, run), RunOK(d, run)',
         WillAsk(run) =>
           /\ \A i \in DOMAIN asked : asked[i] # run.evidence
           /\ \A u \in Tabs : \A c \in DOMAIN runs[u] :
                WillAsk(runs[u][c]) /\ runs[u][c].evidence = run.evidence => u = t /\ c = d
  PROVE  RunsInv' /\ AskInv'
<1>1. ASSUME NEW u \in Tabs, NEW x \in DOMAIN runs'[u]
      PROVE  \/ u = t /\ x = d /\ runs'[u][x] = run
             \/ ~(u = t /\ x = d) /\ x \in DOMAIN runs[u] /\ runs'[u][x] = runs[u][x]
  BY <1>1 DEF Puts
<1>2. RunsInv'
  <2>1. \A u \in Tabs : DOMAIN runs'[u] \subseteq DOMAIN drafts'
    BY <1>1 DEF RunsInv, Grows
  <2>2. ASSUME NEW u \in Tabs, NEW x \in DOMAIN runs'[u] PROVE RunOK(x, runs[u][x])'
    <3>1. CASE u = t /\ x = d /\ runs'[u][x] = run
      <4>1. PICK r : r = run /\ r = runs'[u][x]
        BY <3>1
      <4> QED
        BY <3>1, <4>1 DEF RunOK, OfDraft, Created
    <3>2. CASE x \in DOMAIN runs[u] /\ runs'[u][x] = runs[u][x]
      <4>1. x \in DOMAIN drafts /\ RunOK(x, runs[u][x])
        BY <3>2 DEF RunsInv
      <4>2. PICK r : r = runs[u][x] /\ r = runs'[u][x]
        BY <3>2
      <4>3. RunOK(x, r)'
        BY <4>1, <4>2, StillOK
      <4> QED
        BY <4>2, <4>3 DEF RunOK, OfDraft, Created
    <3> QED
      BY <1>1, <3>1, <3>2
  <2>3. DOMAIN runs' = Tabs
    BY DEF Puts
  <2> QED
    BY <2>1, <2>2, <2>3 DEF RunsInv
<1>3. AskInv'
  <2>1. ASSUME NEW u \in Tabs, NEW x \in DOMAIN runs'[u], WillAsk(runs'[u][x]), NEW i \in DOMAIN asked
        PROVE  asked[i] # runs'[u][x].evidence
    BY <1>1, <2>1 DEF AskInv
  <2>2. ASSUME NEW u \in Tabs, NEW v \in Tabs, NEW x \in DOMAIN runs'[u], NEW y \in DOMAIN runs'[v],
               WillAsk(runs'[u][x]), WillAsk(runs'[v][y]), runs'[u][x].evidence = runs'[v][y].evidence
        PROVE  u = v /\ x = y
    <3>1. CASE (u = t /\ x = d) \/ (v = t /\ y = d)
      BY <1>1, <2>2, <3>1
    <3>2. CASE ~(u = t /\ x = d) /\ ~(v = t /\ y = d)
      BY <1>1, <2>2, <3>2 DEF AskInv
    <3> QED
      BY <3>1, <3>2
  <2> QED
    BY <2>1, <2>2 DEF AskInv, WillAsk
<1> QED
  BY <1>2, <1>3

\* What the server has stays sound when drafts are captured.
LEMMA ServerKept ==
  ASSUME ServerInv, Grows, UNCHANGED <<evidence, asked>>
  PROVE  ServerInv'
<1>1. ASSUME NEW e \in DOMAIN evidence PROVE HashOfDraft(e)'
  BY DEF ServerInv, HashOfDraft, Grows
<1> QED
  BY <1>1 DEF ServerInv, ExtractedAtMostOnce

\* A draft stays kept while the drafts stay stored, or were created.
LEMMA KeptWhileStored ==
  ASSUME PersistentDraftKept, Grows, DOMAIN drafts' = DOMAIN drafts,
         \A d \in stored : d \in DOMAIN drafts => d \in stored' \/ Created(d)
  PROVE  PersistentDraftKept'
<1> SUFFICES ASSUME NEW d \in DOMAIN drafts, drafts[d].storage = "indexeddb"
             PROVE  d \in stored' \/ Created(d)'
  BY DEF PersistentDraftKept, Grows
<1> QED
  BY StillOK DEF PersistentDraftKept

-----------------------------------------------------------------------------
(* Intake and the draft queue.                                             *)

\* A capture of a file or of shared text adds a draft, and saves it where it says.
SavesDraft(t, file, storage) ==
  LET d == Len(drafts) + 1
  IN  /\ drafts' = Append(drafts, [file |-> file, tab |-> t, storage |-> storage])
      /\ Save(t, d, storage)
      /\ queued' \in {queued, [queued EXCEPT ![t] = @ \cup {d}]}
      /\ UNCHANGED <<shown, runs, evidence, asked, reloads>>

LEMMA SaveStep ==
  ASSUME CaptureInv, NEW t \in Tabs, NEW file \in Files, NEW storage \in Storages,
         SavesDraft(t, file, storage)
  PROVE  CaptureInv'
<1> DEFINE d == Len(drafts) + 1
<1> PICK draft : draft = [file |-> file, tab |-> t, storage |-> storage]
  OBVIOUS
<1>1. drafts \in Seq([file : Files, tab : Tabs, storage : Storages]) /\ Len(drafts) \in Nat
      /\ draft \in [file : Files, tab : Tabs, storage : Storages] /\ DOMAIN drafts = 1..Len(drafts)
  BY DEF CaptureInv, QueueInv
<1>2. /\ drafts' \in Seq([file : Files, tab : Tabs, storage : Storages])
      /\ DOMAIN drafts' = 1..d /\ drafts'[d] = draft
      /\ \A c \in DOMAIN drafts : drafts'[c] = drafts[c]
  BY <1>1, AppendProperties DEF SavesDraft
<1>3. /\ DOMAIN drafts \subseteq DOMAIN drafts' /\ d \in DOMAIN drafts' /\ d \notin DOMAIN drafts
      /\ DOMAIN drafts' = DOMAIN drafts \cup {d}
  BY <1>1, <1>2
<1> HIDE DEF d
<1>4. Grows
  BY <1>2, <1>3 DEF Grows, SavesDraft
<1>5. \/ /\ storage = "indexeddb" /\ stored' = stored \cup {d}
         /\ UNCHANGED <<memory, session>>
      \/ /\ storage # "indexeddb" /\ stored' = stored
         /\ memory' = [memory EXCEPT ![t] = @ \cup {d}]
         /\ session' \in {session, [session EXCEPT ![t] = memory'[t]]}
  BY DEF SavesDraft, Save, d
<1>6. QueueInv'
  <2>1. /\ stored' \subseteq DOMAIN drafts'
        /\ memory' \in [Tabs -> SUBSET (DOMAIN drafts')] /\ session' \in [Tabs -> SUBSET (DOMAIN drafts')]
        /\ queued' \in [Tabs -> SUBSET (DOMAIN drafts')]
    <3>1. /\ stored \subseteq DOMAIN drafts'
          /\ memory \in [Tabs -> SUBSET (DOMAIN drafts')] /\ session \in [Tabs -> SUBSET (DOMAIN drafts')]
          /\ queued \in [Tabs -> SUBSET (DOMAIN drafts')]
      BY <1>3 DEF CaptureInv, QueueInv
    <3>2. queued' \in {queued, [queued EXCEPT ![t] = @ \cup {d}]}
      BY DEF SavesDraft, d
    <3>3. memory' \in [Tabs -> SUBSET (DOMAIN drafts')]
      BY <1>3, <1>5, <3>1
    <3> QED
      BY <1>3, <1>5, <3>1, <3>2, <3>3
  <2>2. \A c \in stored' : drafts'[c].storage = "indexeddb"
    <3>1. \A c \in stored : c \in DOMAIN drafts /\ drafts[c].storage = "indexeddb"
      BY DEF CaptureInv, QueueInv
    <3> QED
      BY <1>2, <1>5, <3>1
  <2>3. \A u \in Tabs : \A c \in memory'[u] \cup session'[u] : drafts'[c].storage # "indexeddb"
    <3>1. \A u \in Tabs : \A c \in memory[u] \cup session[u] :
             c \in DOMAIN drafts /\ drafts[c].storage # "indexeddb"
      BY DEF CaptureInv, QueueInv
    <3>2. memory \in [Tabs -> SUBSET (DOMAIN drafts)] /\ session \in [Tabs -> SUBSET (DOMAIN drafts)]
      BY DEF CaptureInv, QueueInv
    <3>3. ASSUME NEW u \in Tabs
          PROVE  /\ memory'[u] \subseteq memory[u] \cup {d}
                 /\ session'[u] \subseteq session[u] \cup memory[u] \cup {d}
                 /\ storage = "indexeddb" => memory'[u] = memory[u] /\ session'[u] = session[u]
      BY <1>5, <3>2
    <3>4. drafts'[d].storage = storage
      BY <1>2
    <3> QED
      BY <1>2, <3>1, <3>3, <3>4
  <2>4. \A u \in Tabs : \A row \in shown'[u] : row.draft \in DOMAIN drafts' /\ OfDraft(row.draft, row.file)'
    BY <1>2, <1>3 DEF CaptureInv, QueueInv, OfDraft, SavesDraft
  <2> QED
    BY <1>2, <2>1, <2>2, <2>3, <2>4 DEF CaptureInv, QueueInv, SavesDraft
<1>7. ServerInv'
  BY <1>4, ServerKept DEF CaptureInv, SavesDraft
<1>8. RunsInv' /\ AskInv'
  BY <1>4, RegistryShrinks DEF CaptureInv, SavesDraft, RunsInv
<1>9. PersistentDraftKept'
  <2> SUFFICES ASSUME NEW c \in DOMAIN drafts', drafts'[c].storage = "indexeddb"
               PROVE  c \in stored' \/ Created(c)'
    BY DEF PersistentDraftKept
  <2>1. CASE c = d
    BY <1>2, <1>5, <2>1
  <2>2. CASE c \in DOMAIN drafts
    <3>1. c \in stored \/ Created(c)
      BY <1>2, <2>2 DEF CaptureInv, PersistentDraftKept
    <3>2. stored \subseteq stored'
      BY <1>5
    <3> QED
      BY <1>4, <2>2, <3>1, <3>2, StillOK
  <2> QED
    BY <1>3, <2>1, <2>2
<1> QED
  BY <1>6, <1>7, <1>8, <1>9 DEF CaptureInv

\* The rows of the table show the drafts of both storages, those of the tab's without
\* their file.
LEMMA ListStep ==
  ASSUME CaptureInv, NEW t \in Tabs, ListDrafts(t)
  PROVE  CaptureInv'
<1>1. Grows /\ UNCHANGED <<drafts, stored, session, queued, runs, evidence, asked, reloads>>
  BY DEF ListDrafts, Grows, server
<1>2. memory' = [memory EXCEPT ![t] = @ \cup session[t]]
  BY DEF ListDrafts
<1>3. /\ memory \in [Tabs -> SUBSET (DOMAIN drafts)] /\ session \in [Tabs -> SUBSET (DOMAIN drafts)]
      /\ shown \in [Tabs -> SUBSET Rows]
      /\ \A u \in Tabs : \A c \in memory[u] \cup session[u] : drafts[c].storage # "indexeddb"
      /\ \A c \in stored : c \in DOMAIN drafts
      /\ drafts \in Seq([file : Files, tab : Tabs, storage : Storages])
  BY DEF CaptureInv, QueueInv
<1>4. memory' \in [Tabs -> SUBSET (DOMAIN drafts)]
      /\ \A u \in Tabs : \A c \in memory'[u] : drafts[c].storage # "indexeddb"
  BY <1>2, <1>3
<1>5. DOMAIN drafts \subseteq Nat /\ \A c \in DOMAIN drafts : drafts[c].file \in Files
  <2>1. DOMAIN drafts = 1..Len(drafts) /\ Len(drafts) \in Nat
    BY <1>3
  <2>2. \A c \in DOMAIN drafts : drafts[c] \in [file : Files, tab : Tabs, storage : Storages]
    BY <1>3, <2>1, ElementOfSeq
  <2> QED
    BY <2>1, <2>2
<1>6. NoFile \in Files
  BY DEF Files
<1>7. PICK rows : /\ shown' = [shown EXCEPT ![t] = rows]
                  /\ \A row \in rows :
                       \/ \E c \in stored : row = [draft |-> c, file |-> drafts[c].file]
                       \/ \E c \in memory'[t] : row = [draft |-> c, file |-> NoFile]
  <2> DEFINE kept == {[draft |-> c, file |-> drafts[c].file] : c \in stored}
             fallback == {[draft |-> c, file |-> NoFile] : c \in memory'[t]}
  <2>1. shown' = [shown EXCEPT ![t] = kept \cup fallback] \/ shown' = [shown EXCEPT ![t] = fallback]
    BY DEF ListDrafts
  <2>2. \A row \in kept : \E c \in stored : row = [draft |-> c, file |-> drafts[c].file]
    OBVIOUS
  <2>3. \A row \in fallback : \E c \in memory'[t] : row = [draft |-> c, file |-> NoFile]
    OBVIOUS
  <2> HIDE DEF kept, fallback
  <2> QED
    BY <2>1, <2>2, <2>3
<1>8. \A row \in rows : row \in Rows /\ row.draft \in DOMAIN drafts /\ OfDraft(row.draft, row.file)
  <2> SUFFICES ASSUME NEW row \in rows
               PROVE  row \in Rows /\ row.draft \in DOMAIN drafts /\ OfDraft(row.draft, row.file)
    OBVIOUS
  <2>1. ASSUME NEW c \in stored, row = [draft |-> c, file |-> drafts[c].file]
        PROVE  row \in Rows /\ row.draft \in DOMAIN drafts /\ OfDraft(row.draft, row.file)
    BY <1>3, <1>5, <2>1 DEF Rows, OfDraft
  <2>2. ASSUME NEW c \in memory'[t], row = [draft |-> c, file |-> NoFile]
        PROVE  row \in Rows /\ row.draft \in DOMAIN drafts /\ OfDraft(row.draft, row.file)
    BY <1>4, <1>5, <1>6, <2>2 DEF Rows, OfDraft
  <2> QED
    BY <1>7, <2>1, <2>2
<1>9. QueueInv'
  <2>1. shown' \in [Tabs -> SUBSET Rows]
    BY <1>3, <1>7, <1>8
  <2>2. \A u \in Tabs : \A row \in shown'[u] : row.draft \in DOMAIN drafts /\ OfDraft(row.draft, row.file)
    BY <1>3, <1>7, <1>8 DEF CaptureInv, QueueInv
  <2>3. \A u \in Tabs : \A row \in shown'[u] : row.draft \in DOMAIN drafts' /\ OfDraft(row.draft, row.file)'
    BY <1>1, <2>2 DEF OfDraft
  <2> QED
    BY <1>1, <1>3, <1>4, <2>1, <2>3 DEF CaptureInv, QueueInv
<1>10. ServerInv'
  BY <1>1, ServerKept DEF CaptureInv
<1>11. RunsInv' /\ AskInv'
  BY <1>1, RegistryShrinks DEF CaptureInv, RunsInv
<1>12. PersistentDraftKept'
  BY <1>1, KeptWhileStored DEF CaptureInv
<1> QED
  BY <1>9, <1>10, <1>11, <1>12 DEF CaptureInv

-----------------------------------------------------------------------------
(* The pipeline.                                                           *)

\* A promotion that starts carries the draft's file or a stripped one, and one that
\* runs is joined.
LEMMA PromoteStep ==
  ASSUME CaptureInv, NEW t \in Tabs, NEW d \in DOMAIN drafts, NEW file \in Files, OfDraft(d, file),
         Promote(t, d, file), UNCHANGED <<queue, shown, server, reloads>>,
         queued' \in {queued, [queued EXCEPT ![t] = @ \ {d}]}
  PROVE  CaptureInv'
<1>1. Grows /\ UNCHANGED <<drafts, stored, memory, session, shown, evidence, asked, reloads>>
  BY DEF Grows, queue, server
<1>2. QueueInv'
  <2>1. queued' \in [Tabs -> SUBSET (DOMAIN drafts)]
    BY DEF CaptureInv, QueueInv
  <2>2. \A u \in Tabs : \A row \in shown[u] : row.draft \in DOMAIN drafts' /\ OfDraft(row.draft, row.file)'
    BY <1>1 DEF CaptureInv, QueueInv, OfDraft
  <2> QED
    BY <1>1, <2>1, <2>2 DEF CaptureInv, QueueInv
<1>3. RunsInv' /\ AskInv'
  <2>1. CASE runs' = runs
    BY <1>1, <2>1, RegistryShrinks DEF CaptureInv, RunsInv
  <2>2. CASE runs' = With(t, d, NewRun(file))
    <3> PICK run : run = NewRun(file)
      OBVIOUS
    <3>1. /\ run \in Runs /\ run.phase = "creating" /\ run.file = file
      BY DEF NewRun, Runs, Phases
    <3>2. RunOK(d, run)
      BY <3>1 DEF RunOK
    <3>3. RunOK(d, run)'
      BY <1>1, <3>2, StillOK
    <3>4. Puts(t, d, run)
      BY <2>2, WithRun DEF Puts, CaptureInv, RunsInv
    <3>5. ~WillAsk(run)
      BY <3>1 DEF WillAsk
    <3> QED
      BY <1>1, <3>3, <3>4, <3>5, RegistryPuts DEF CaptureInv
  <2> QED
    BY <2>1, <2>2 DEF Promote
<1> QED
  BY <1>1, <1>2, <1>3, ServerKept, KeptWhileStored DEF CaptureInv

\* A promotion settles, and leaves the drafts and the server as they are.
LEMMA SettleStep ==
  ASSUME CaptureInv, NEW t \in Tabs, NEW d, runs' = Settled(t, d),
         UNCHANGED <<queue, shown, queued, server, reloads>>
  PROVE  CaptureInv'
<1>1. Grows /\ UNCHANGED <<drafts, stored, memory, session, shown, queued, evidence, asked, reloads>>
  BY DEF Grows, queue, server
<1>2. QueueInv'
  BY <1>1 DEF CaptureInv, QueueInv, OfDraft
<1>3. RunsInv' /\ AskInv'
  BY <1>1, RegistryShrinks, SettledRun DEF CaptureInv, RunsInv
<1> QED
  BY <1>1, <1>2, <1>3, ServerKept, KeptWhileStored DEF CaptureInv

\* The create of a promotion finds the content or adds it, and the promotion goes on
\* or, without an answer, settles.
LEMMA CreateStep ==
  ASSUME CaptureInv, NEW t \in Tabs, NEW d \in DOMAIN runs[t], CreateEvidence(t, d)
  PROVE  CaptureInv'
<1> PICK run : run = runs[t][d]
  OBVIOUS
<1> PICK hash : hash = SentHash(run.file)
  OBVIOUS
<1>1. /\ d \in DOMAIN drafts /\ RunOK(d, run) /\ run.phase = "creating" /\ run \in Runs
      /\ UNCHANGED <<drafts, stored, memory, session, shown, queued, asked, reloads>>
  BY DEF CaptureInv, RunsInv, CreateEvidence, InPhase, queue, RunOK
<1>2. QueueInv'
  BY <1>1 DEF CaptureInv, QueueInv, OfDraft
<1>3. hash \in {NoFile, run.file} /\ hash \in Files
      /\ (run.file # NoFile /\ hash = NoFile => ~HashAvailable)
  BY <1>1, HashAssumption DEF SentHash, Runs, Files
<1>4. evidence \in Seq([hash : Files, draft : Nat]) /\ DOMAIN evidence = 1..Len(evidence)
      /\ Len(evidence) \in Nat
  BY DEF CaptureInv, ServerInv
<1>5. d \in Nat
  BY <1>1 DEF CaptureInv, QueueInv
<1>6. ASSUME NEW e \in Answers(hash), UNCHANGED evidence,
             \/ runs' = With(t, d, [run EXCEPT !.phase = "removing", !.evidence = e, !.deduped = TRUE])
             \/ runs' = Settled(t, d)
      PROVE  CaptureInv'
  <2>1. Grows
    BY <1>1, <1>6 DEF Grows
  <2>2. CASE runs' = Settled(t, d)
    BY <1>1, <1>6, <2>2, SettleStep DEF queue, server
  <2>3. CASE runs' = With(t, d, [run EXCEPT !.phase = "removing", !.evidence = e, !.deduped = TRUE])
    <3> PICK found : found = [run EXCEPT !.phase = "removing", !.evidence = e, !.deduped = TRUE]
      OBVIOUS
    <3>1. e \in DOMAIN evidence /\ hash # NoFile /\ evidence[e].hash = hash /\ e \in Nat
      BY <1>4, <1>6 DEF Answers
    <3>2. /\ found \in Runs /\ found.phase = "removing" /\ found.file = run.file
          /\ found.evidence = e /\ found.deduped = TRUE
      BY <1>1, <3>1 DEF Runs, Phases
    <3>3. run.file = drafts[d].file /\ run.file # NoFile /\ OfDraft(d, run.file)
      BY <1>1, <1>3, <3>1 DEF RunOK, OfDraft
    <3>4. Created(d)
      BY <1>3, <3>1, <3>3 DEF Created
    <3>5. RunOK(d, found)
      BY <3>1, <3>2, <3>3, <3>4 DEF RunOK
    <3>6. RunOK(d, found)'
      BY <1>1, <2>1, <3>5, StillOK
    <3>7. Puts(t, d, found)
      BY <2>3, WithRun DEF Puts, CaptureInv, RunsInv
    <3>8. ~WillAsk(found)
      BY <3>2 DEF WillAsk
    <3>9. RunsInv' /\ AskInv'
      BY <1>1, <2>1, <3>6, <3>7, <3>8, RegistryPuts DEF CaptureInv
    <3> QED
      BY <1>1, <1>2, <1>6, <2>1, <3>9, ServerKept, KeptWhileStored DEF CaptureInv
  <2> QED
    BY <1>6, <2>2, <2>3
<1>7. ASSUME Answers(hash) = {}, evidence' = Append(evidence, [hash |-> hash, draft |-> d]),
             \/ runs' = With(t, d, [run EXCEPT !.phase = "removing", !.evidence = Len(evidence) + 1,
                                               !.deduped = FALSE])
             \/ runs' = Settled(t, d)
      PROVE  CaptureInv'
  <2> PICK n : n = Len(evidence) + 1
    OBVIOUS
  <2> PICK object : object = [hash |-> hash, draft |-> d]
    OBVIOUS
  <2>1. object \in [hash : Files, draft : Nat] /\ object.hash = hash /\ object.draft = d
    BY <1>3, <1>5
  <2>2. /\ evidence' \in Seq([hash : Files, draft : Nat]) /\ n \in Nat
        /\ DOMAIN evidence' = DOMAIN evidence \cup {n} /\ n \notin DOMAIN evidence
        /\ evidence'[n] = object /\ \A e \in DOMAIN evidence : evidence'[e] = evidence[e]
    <3>1. /\ evidence' \in Seq([hash : Files, draft : Nat]) /\ Len(evidence') = n
          /\ evidence'[n] = object /\ \A e \in 1..Len(evidence) : evidence'[e] = evidence[e]
      BY <1>4, <1>7, <2>1, AppendProperties
    <3> QED
      BY <1>4, <3>1
  <2>3. Grows
    BY <1>1, <2>2 DEF Grows
  <2>4. \A e \in DOMAIN evidence : hash # NoFile => evidence[e].hash # hash
    BY <1>7 DEF Answers
  <2>5. ServerInv'
    <3>1. ASSUME NEW e \in DOMAIN evidence' PROVE HashOfDraft(e)'
      <4>1. CASE e \in DOMAIN evidence
        BY <1>1, <2>2, <4>1 DEF CaptureInv, ServerInv, HashOfDraft
      <4>2. CASE e = n
        <5>1. /\ hash \in {NoFile, drafts[d].file}
              /\ HashAvailable /\ drafts[d].storage = "indexeddb" => hash = drafts[d].file
          BY <1>1, <1>3 DEF RunOK, OfDraft
        <5> QED
          BY <1>1, <2>1, <2>2, <4>2, <5>1 DEF HashOfDraft
      <4> QED
        BY <2>2, <4>1, <4>2
    <3>2. ASSUME NEW e \in DOMAIN evidence', NEW f \in DOMAIN evidence',
                 evidence'[e].hash = evidence'[f].hash, evidence'[e].hash # NoFile
          PROVE  e = f
      BY <2>1, <2>2, <2>4, <3>2 DEF CaptureInv, ServerInv
    <3>3. \A i \in DOMAIN asked : asked[i] \in DOMAIN evidence'
      BY <2>2 DEF CaptureInv, ServerInv
    <3> QED
      BY <1>1, <2>2, <3>1, <3>2, <3>3 DEF CaptureInv, ServerInv, ExtractedAtMostOnce
  <2>6. RunsInv' /\ AskInv'
    <3>1. CASE runs' = Settled(t, d)
      BY <1>1, <2>3, <3>1, RegistryShrinks, SettledRun DEF CaptureInv, RunsInv
    <3>2. CASE runs' = With(t, d, [run EXCEPT !.phase = "removing", !.evidence = n, !.deduped = FALSE])
      <4> PICK made : made = [run EXCEPT !.phase = "removing", !.evidence = n, !.deduped = FALSE]
        OBVIOUS
      <4>1. /\ made \in Runs /\ made.phase = "removing" /\ made.file = run.file
            /\ made.evidence = n /\ made.deduped = FALSE
        BY <1>1, <2>2 DEF Runs, Phases
      <4>2. Created(d)' /\ n \in DOMAIN evidence'
        BY <2>1, <2>2 DEF Created
      <4>3. OfDraft(d, run.file)
        BY <1>1 DEF RunOK
      <4>4. OfDraft(d, made.file)'
        BY <1>1, <4>1, <4>3 DEF OfDraft
      <4>5. RunOK(d, made)'
        BY <4>1, <4>2, <4>4 DEF RunOK
      <4>6. Puts(t, d, made)
        BY <3>2, WithRun DEF Puts, CaptureInv, RunsInv
      <4>7. \A i \in DOMAIN asked : asked[i] # made.evidence
        BY <2>2, <4>1 DEF CaptureInv, ServerInv
      <4>8. \A u \in Tabs : \A c \in DOMAIN runs[u] : WillAsk(runs[u][c]) => runs[u][c].evidence # n
        BY <2>2 DEF CaptureInv, RunsInv, RunOK, WillAsk
      <4>9. WillAsk(made) =>
              /\ \A i \in DOMAIN asked : asked[i] # made.evidence
              /\ \A u \in Tabs : \A c \in DOMAIN runs[u] :
                   WillAsk(runs[u][c]) /\ runs[u][c].evidence = made.evidence => u = t /\ c = d
        BY <4>1, <4>7, <4>8
      <4> QED
        BY <1>1, <2>3, <4>5, <4>6, <4>9, RegistryPuts DEF CaptureInv
    <3> QED
      BY <1>7, <3>1, <3>2
  <2>7. PersistentDraftKept'
    BY <1>1, <2>3, KeptWhileStored DEF CaptureInv
  <2> QED
    BY <1>2, <2>5, <2>6, <2>7 DEF CaptureInv
<1> QED
  BY <1>6, <1>7 DEF CreateEvidence

\* A draft is removed only when the server has what was captured in it.
LEMMA RemoveStep ==
  ASSUME CaptureInv, NEW t \in Tabs, NEW d \in DOMAIN runs[t], RemoveDraft(t, d)
  PROVE  CaptureInv'
<1> PICK run : run = runs[t][d]
  OBVIOUS
<1>1. /\ d \in DOMAIN drafts /\ RunOK(d, run) /\ run \in Runs /\ run.phase = "removing"
      /\ UNCHANGED <<drafts, shown, queued, evidence, asked, reloads>>
      /\ stored' \in {stored, stored \ {d}}
      /\ memory' = [memory EXCEPT ![t] = @ \ {d}]
      /\ session' \in {session, [session EXCEPT ![t] = memory'[t]]}
      /\ runs' = [runs EXCEPT ![t][d].phase = "extracting"]
  BY DEF CaptureInv, RunsInv, RemoveDraft, InPhase, Unsave, server, RunOK
<1>2. Grows
  BY <1>1 DEF Grows
<1>3. QueueInv'
  <2>1. /\ memory \in [Tabs -> SUBSET (DOMAIN drafts)] /\ session \in [Tabs -> SUBSET (DOMAIN drafts)]
        /\ \A u \in Tabs : \A c \in memory[u] \cup session[u] : drafts[c].storage # "indexeddb"
    BY DEF CaptureInv, QueueInv
  <2>2. memory' \in [Tabs -> SUBSET (DOMAIN drafts)] /\ \A u \in Tabs : memory'[u] \subseteq memory[u]
    BY <1>1, <2>1
  <2>3. session' \in [Tabs -> SUBSET (DOMAIN drafts)]
        /\ \A u \in Tabs : session'[u] \subseteq session[u] \cup memory[u]
    BY <1>1, <2>1, <2>2
  <2>4. \A u \in Tabs : \A c \in memory'[u] \cup session'[u] : drafts[c].storage # "indexeddb"
    BY <2>1, <2>2, <2>3
  <2>5. stored' \subseteq stored
    BY <1>1
  <2> QED
    BY <1>1, <2>2, <2>3, <2>4, <2>5 DEF CaptureInv, QueueInv, OfDraft
<1>4. RunsInv' /\ AskInv'
  <2> PICK done : done = [run EXCEPT !.phase = "extracting"]
    OBVIOUS
  <2>1. /\ done \in Runs /\ done.phase = "extracting" /\ done.file = run.file
        /\ done.evidence = run.evidence /\ done.deduped = run.deduped
    BY <1>1 DEF Runs, Phases
  <2>2. RunOK(d, done)
    BY <1>1, <2>1 DEF RunOK
  <2>3. RunOK(d, done)'
    BY <1>1, <1>2, <2>2, StillOK
  <2>4. Puts(t, d, done)
    BY <1>1 DEF Puts, CaptureInv, RunsInv
  <2>5. WillAsk(done) => WillAsk(run)
    BY <1>1, <2>1 DEF WillAsk
  <2>6. WillAsk(done) =>
          /\ \A i \in DOMAIN asked : asked[i] # done.evidence
          /\ \A u \in Tabs : \A c \in DOMAIN runs[u] :
               WillAsk(runs[u][c]) /\ runs[u][c].evidence = done.evidence => u = t /\ c = d
    BY <2>1, <2>5 DEF CaptureInv, AskInv
  <2> QED
    BY <1>1, <1>2, <2>3, <2>4, <2>6, RegistryPuts DEF CaptureInv
<1>5. PersistentDraftKept'
  <2>1. Created(d)
    BY <1>1 DEF RunOK
  <2>2. \A c \in stored : c \in DOMAIN drafts => c \in stored' \/ Created(c)
    BY <1>1, <2>1
  <2> QED
    BY <1>1, <1>2, <2>2, KeptWhileStored DEF CaptureInv
<1> QED
  BY <1>1, <1>2, <1>3, <1>4, <1>5, ServerKept DEF CaptureInv

\* A promotion that created evidence asks for its extraction, as the only one ever to.
LEMMA AskStep ==
  ASSUME CaptureInv, NEW t \in Tabs, NEW d \in DOMAIN runs[t], AskExtraction(t, d)
  PROVE  CaptureInv'
<1> PICK run : run = runs[t][d]
  OBVIOUS
<1>1. /\ d \in DOMAIN drafts /\ RunOK(d, run) /\ run \in Runs /\ run.phase = "extracting"
      /\ UNCHANGED <<drafts, stored, memory, session, shown, queued, evidence, reloads>>
      /\ runs' = Settled(t, d)
      /\ \/ run.deduped /\ UNCHANGED asked
         \/ ~run.deduped /\ asked' = Append(asked, run.evidence)
  BY DEF CaptureInv, RunsInv, AskExtraction, InPhase, queue, RunOK
<1>2. Grows
  BY <1>1 DEF Grows
<1>3. CASE UNCHANGED asked
  BY <1>1, <1>3, SettleStep DEF queue, server
<1>4. CASE ~run.deduped /\ asked' = Append(asked, run.evidence)
  <2>1. /\ run.evidence \in DOMAIN evidence /\ WillAsk(run) /\ run.evidence \in Nat
    BY <1>1, <1>4 DEF RunOK, WillAsk, Runs
  <2>2. /\ asked \in Seq(Nat) /\ Len(asked) \in Nat /\ DOMAIN asked = 1..Len(asked)
    BY DEF CaptureInv, ServerInv
  <2> PICK n : n = Len(asked) + 1
    OBVIOUS
  <2>3. /\ asked' \in Seq(Nat) /\ DOMAIN asked' = DOMAIN asked \cup {n} /\ n \notin DOMAIN asked
        /\ asked'[n] = run.evidence /\ \A i \in DOMAIN asked : asked'[i] = asked[i]
    <3>1. /\ asked' \in Seq(Nat) /\ Len(asked') = n
          /\ asked'[n] = run.evidence /\ \A i \in 1..Len(asked) : asked'[i] = asked[i]
      BY <1>4, <2>1, <2>2, AppendProperties
    <3> QED
      BY <2>2, <3>1
  <2>4. \A i \in DOMAIN asked : asked[i] # run.evidence
    BY <2>1 DEF CaptureInv, AskInv
  <2>5. ServerInv'
    <3>1. ExtractedAtMostOnce'
      BY <2>3, <2>4 DEF CaptureInv, ServerInv, ExtractedAtMostOnce
    <3>2. \A e \in DOMAIN evidence : HashOfDraft(e)'
      BY <1>1 DEF CaptureInv, ServerInv, HashOfDraft
    <3> QED
      BY <1>1, <2>1, <2>3, <3>1, <3>2 DEF CaptureInv, ServerInv
  <2>6. /\ DOMAIN runs' = Tabs
        /\ \A u \in Tabs : /\ DOMAIN runs'[u] \subseteq DOMAIN runs[u]
                           /\ \A x \in DOMAIN runs'[u] : runs'[u][x] = runs[u][x]
                           /\ \A x \in DOMAIN runs'[u] : ~(u = t /\ x = d)
    BY <1>1, SettledRun DEF CaptureInv, RunsInv
  <2>7. RunsInv'
    <3>1. \A u \in Tabs : DOMAIN runs'[u] \subseteq DOMAIN drafts'
      BY <1>1, <2>6 DEF CaptureInv, RunsInv
    <3>2. ASSUME NEW u \in Tabs, NEW x \in DOMAIN runs'[u] PROVE RunOK(x, runs[u][x])'
      BY <1>1, <2>6 DEF CaptureInv, RunsInv, RunOK, OfDraft, Created
    <3> QED
      BY <2>6, <3>1, <3>2 DEF RunsInv
  <2>8. AskInv'
    <3>1. ASSUME NEW u \in Tabs, NEW x \in DOMAIN runs'[u], WillAsk(runs'[u][x]), NEW i \in DOMAIN asked'
          PROVE  asked'[i] # runs'[u][x].evidence
      <4>1. x \in DOMAIN runs[u] /\ runs'[u][x] = runs[u][x] /\ ~(u = t /\ x = d)
        BY <2>6
      <4>2. CASE i = n
        BY <2>1, <2>3, <3>1, <4>1, <4>2 DEF CaptureInv, AskInv
      <4>3. CASE i \in DOMAIN asked
        BY <2>3, <3>1, <4>1, <4>3 DEF CaptureInv, AskInv
      <4> QED
        BY <2>3, <4>2, <4>3
    <3> QED
      BY <2>6, <3>1 DEF CaptureInv, AskInv, WillAsk
  <2>9. QueueInv'
    BY <1>1 DEF CaptureInv, QueueInv, OfDraft
  <2> QED
    BY <1>1, <1>2, <2>5, <2>7, <2>8, <2>9, KeptWhileStored DEF CaptureInv
<1> QED
  BY <1>1, <1>3, <1>4

\* A tab that dies takes its promotions, its table and its memory with it.
LEMMA ReloadStep ==
  ASSUME CaptureInv, NEW t \in Tabs, Reload(t)
  PROVE  CaptureInv'
<1>1. /\ UNCHANGED <<drafts, stored, session, evidence, asked>>
      /\ runs' = [runs EXCEPT ![t] = <<>>]
  BY DEF Reload, server
<1>2. Grows
  BY <1>1 DEF Grows
<1>3. QueueInv'
  <2>1. reloads' \in 0..MaxReloads
    BY BoundsAssumption DEF Reload, CaptureInv, QueueInv
  <2> QED
    BY <1>1, <2>1 DEF CaptureInv, QueueInv, OfDraft, Reload
<1>4. /\ DOMAIN runs' = Tabs
      /\ \A u \in Tabs : /\ DOMAIN runs'[u] \subseteq DOMAIN runs[u]
                         /\ \A x \in DOMAIN runs'[u] : runs'[u][x] = runs[u][x]
  <2>1. runs'[t] = <<>> /\ DOMAIN runs'[t] = {} /\ DOMAIN runs' = Tabs
    BY <1>1 DEF CaptureInv, RunsInv
  <2> QED
    BY <1>1, <2>1 DEF CaptureInv, RunsInv
<1>5. RunsInv' /\ AskInv'
  BY <1>1, <1>2, <1>4, RegistryShrinks DEF CaptureInv
<1> QED
  BY <1>1, <1>2, <1>3, <1>5, ServerKept, KeptWhileStored DEF CaptureInv

-----------------------------------------------------------------------------
(* The theorems.                                                           *)

\* Every step of the specification keeps the invariant.
LEMMA CaptureStep == CaptureInv /\ [Next]_vars => CaptureInv'
<1> SUFFICES ASSUME CaptureInv, [Next]_vars PROVE CaptureInv'
  OBVIOUS
<1>1. /\ \A t \in Tabs : queued[t] \subseteq DOMAIN drafts
      /\ \A t \in Tabs : \A row \in shown[t] :
           row \in Rows /\ row.draft \in DOMAIN drafts /\ OfDraft(row.draft, row.file)
      /\ \A d \in DOMAIN drafts : drafts[d].file \in Files
      /\ Contents \subseteq Files /\ NoFile \in Files
  <2>1. \A d \in DOMAIN drafts : drafts[d] \in [file : Files, tab : Tabs, storage : Storages]
    <3>1. drafts \in Seq([file : Files, tab : Tabs, storage : Storages])
      BY DEF CaptureInv, QueueInv
    <3>2. DOMAIN drafts = 1..Len(drafts)
      BY <3>1
    <3> QED
      BY <3>1, <3>2, ElementOfSeq
  <2>2. \A d \in DOMAIN drafts : drafts[d].file \in Files
    BY <2>1
  <2>3. Contents \subseteq Files /\ NoFile \in Files
    BY DEF Files
  <2> QED
    BY <2>2, <2>3 DEF CaptureInv, QueueInv
<1>2. ASSUME NEW t \in Tabs, NEW file \in Contents, NEW storage \in Storages, SaveFile(t, file, storage)
      PROVE  CaptureInv'
  BY <1>1, <1>2, SaveStep DEF SaveFile, SavesDraft, server
<1>3. ASSUME NEW t \in Tabs, NEW storage \in Storages, SaveText(t, storage) PROVE CaptureInv'
  BY <1>1, <1>3, SaveStep DEF SaveText, SavesDraft, server
<1>4. ASSUME NEW t \in Tabs, NEW d \in queued[t], PromoteSaved(t, d) PROVE CaptureInv'
  <2>1. d \in DOMAIN drafts /\ drafts[d].file \in Files /\ OfDraft(d, drafts[d].file)
    BY <1>1 DEF OfDraft
  <2> QED
    BY <1>4, <2>1, PromoteStep DEF PromoteSaved
<1>5. ASSUME NEW t \in Tabs, NEW row \in shown[t], ClickPromote(t, row) PROVE CaptureInv'
  <2>1. row.draft \in DOMAIN drafts /\ row.file \in Files /\ OfDraft(row.draft, row.file)
    BY <1>1 DEF Rows
  <2> QED
    BY <1>5, <2>1, PromoteStep DEF ClickPromote
<1>6. ASSUME NEW t \in Tabs, NEW d \in DOMAIN runs[t], Advance(t, d) PROVE CaptureInv'
  <2>1. CASE FailBeforeCreate(t, d)
    BY <2>1, SettleStep DEF FailBeforeCreate
  <2> QED
    BY <1>6, <2>1, CreateStep, RemoveStep, AskStep DEF Advance
<1>7. CASE UNCHANGED vars
  <2>1. /\ Grows
        /\ UNCHANGED <<drafts, stored, memory, session, shown, queued, runs, evidence, asked, reloads>>
    BY <1>7 DEF vars, queue, server, Grows
  <2>2. QueueInv'
    BY <2>1 DEF CaptureInv, QueueInv, OfDraft
  <2> QED
    BY <2>1, <2>2, ServerKept, KeptWhileStored, RegistryShrinks DEF CaptureInv, RunsInv
<1> QED
  BY <1>2, <1>3, <1>4, <1>5, <1>6, <1>7, ListStep, ReloadStep DEF Next

\* The invariant holds of every state.
LEMMA CaptureInvariant == Spec => []CaptureInv
<1>1. Init => CaptureInv
  <2> SUFFICES ASSUME Init PROVE CaptureInv
    OBVIOUS
  <2>1. DOMAIN drafts = {} /\ DOMAIN evidence = {} /\ DOMAIN asked = {}
    BY DEF Init
  <2>2. QueueInv
    BY <2>1, BoundsAssumption DEF Init, QueueInv
  <2>3. ServerInv
    BY <2>1 DEF Init, ServerInv, ExtractedAtMostOnce
  <2>4. \A t \in Tabs : DOMAIN runs[t] = {}
    BY DEF Init
  <2>5. RunsInv /\ AskInv
    BY <2>4 DEF Init, RunsInv, AskInv
  <2> QED
    BY <2>1, <2>2, <2>3, <2>5 DEF CaptureInv, PersistentDraftKept
<1> QED
  BY <1>1, CaptureStep, PTL DEF Spec

\* Whatever the tabs do, every draft, row and promotion is of a draft that was
\* captured, and every evidence object of a content or none (TypeOK of the runs).
THEOREM CaptureTypes == Spec => []TypeOK
<1>1. CaptureInv => TypeOK
  BY DEF CaptureInv, QueueInv, ServerInv, RunsInv, RunOK, TypeOK
<1> QED
  BY <1>1, CaptureInvariant, PTL

\* A draft the user was told is in IndexedDB stays there until the server has what was
\* captured in it, over every failed promotion, lost answer and dying tab.
THEOREM CaptureKeepsDrafts == Spec => []PersistentDraftKept
<1>1. CaptureInv => PersistentDraftKept
  BY DEF CaptureInv
<1> QED
  BY <1>1, CaptureInvariant, PTL

\* A file kept in IndexedDB becomes one evidence object, and no evidence is extracted
\* twice, over every retry, lost answer, other tab and second capture of it.
THEOREM CaptureProcessesOnce == Spec => []ProcessedOnce
<1>1. CaptureInv => PersistentFileCreatedOnce
  <2> SUFFICES ASSUME CaptureInv, HashAvailable,
                      NEW e \in DOMAIN evidence, NEW f \in DOMAIN evidence,
                      drafts[evidence[e].draft].file = drafts[evidence[f].draft].file,
                      drafts[evidence[e].draft].file # NoFile,
                      drafts[evidence[e].draft].storage = "indexeddb",
                      drafts[evidence[f].draft].storage = "indexeddb"
               PROVE  e = f
    BY DEF PersistentFileCreatedOnce
  <2>1. /\ evidence[e].hash = drafts[evidence[e].draft].file
        /\ evidence[f].hash = drafts[evidence[f].draft].file
    BY DEF CaptureInv, ServerInv, HashOfDraft
  <2> QED
    BY <2>1 DEF CaptureInv, ServerInv
<1>2. CaptureInv => ProcessedOnce
  BY <1>1 DEF CaptureInv, ServerInv, ProcessedOnce
<1> QED
  BY <1>2, CaptureInvariant, PTL
=============================================================================
