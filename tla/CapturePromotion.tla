-------------------------- MODULE CapturePromotion --------------------------
(***************************************************************************)
(* Capture in the browser: drafts are saved locally first, in IndexedDB or *)
(* in the tab's fallback storage, and promoted into ledger evidence by a   *)
(* pipeline that may fail, lose an answer or die with its tab at every     *)
(* await.  Several tabs share IndexedDB and the server; each has its own   *)
(* sessionStorage, its own memory and its own registry of running          *)
(* promotions.                                                             *)
(*                                                                         *)
(* A draft is the place of its capture in the order of all captures, and   *)
(* an evidence object the place of its creation.                           *)
(***************************************************************************)
EXTENDS Naturals, Sequences, FiniteSets

CONSTANTS Tabs,          \* the tabs of one browser
          Contents,      \* the files a user can capture
          NoFile,        \* a draft without a file: shared text, or a stripped copy
          HashAvailable, \* FALSE where crypto.subtle is withheld
          Storages,      \* where the browser can keep a draft
          MaxDrafts,     \* bound on captures
          MaxEvidence,   \* bound on evidence objects
          MaxReloads     \* bound on reloads

ASSUME NoFileAssumption == NoFile \notin Contents
ASSUME HashAssumption == HashAvailable \in BOOLEAN
ASSUME StoragesAssumption == Storages \subseteq {"indexeddb", "session", "memory"}
ASSUME BoundsAssumption == MaxDrafts \in Nat /\ MaxEvidence \in Nat /\ MaxReloads \in Nat

VARIABLES drafts,   \* drafts[d]: its file, its tab and where the user was told it is kept
          stored,   \* the drafts in IndexedDB, files included
          memory,   \* memory[t]: inMemoryDrafts, files stripped
          session,  \* session[t]: the sessionStorage mirror of them
          shown,    \* shown[t]: the rows of the drafts table
          queued,   \* queued[t]: files saved by captureFiles, not yet promoted
          runs,     \* runs[t]: inFlightPromotions, by draft
          evidence, \* the server's evidence: its hash, and the draft it came from
          asked,    \* the evidence of every extraction request sent
          reloads   \* how often a tab was reloaded

queue == <<drafts, stored, memory, session>>
server == <<evidence, asked>>
vars == <<queue, shown, queued, runs, server, reloads>>

Files == Contents \cup {NoFile}
Phases == {"creating", "removing", "extracting"}
Rows == [draft : Nat, file : Files]
Runs == [phase : Phases, file : Files, evidence : Nat, deduped : BOOLEAN]

Init ==
    /\ drafts = <<>>
    /\ stored = {}
    /\ memory = [t \in Tabs |-> {}]
    /\ session = [t \in Tabs |-> {}]
    /\ shown = [t \in Tabs |-> {}]
    /\ queued = [t \in Tabs |-> {}]
    /\ runs = [t \in Tabs |-> <<>>]
    /\ evidence = <<>> /\ asked = <<>>
    /\ reloads = 0

-----------------------------------------------------------------------------
(* The draft queue.                                                        *)

\* saveCaptureDraft: IndexedDB, else the tab's memory, mirrored whole into
\* sessionStorage when that can be written.
Save(t, d, storage) ==
    \/ /\ storage = "indexeddb"
       /\ stored' = stored \cup {d}
       /\ UNCHANGED <<memory, session>>
    \/ /\ storage \in {"session", "memory"}
       /\ memory' = [memory EXCEPT ![t] = @ \cup {d}]
       /\ \/ storage = "session" /\ session' = [session EXCEPT ![t] = memory'[t]]
          \/ storage = "memory" /\ UNCHANGED session
       /\ UNCHANGED stored

\* removeCaptureDraft: both storages, each of which may fail unnoticed.
Unsave(t, d) ==
    /\ stored' \in {stored, stored \ {d}}
    /\ memory' = [memory EXCEPT ![t] = @ \ {d}]
    /\ session' \in {session, [session EXCEPT ![t] = memory'[t]]}

\* listCaptureDrafts: the mirror is read back into memory, and a draft listed
\* from there has no file.  Without IndexedDB only the fallback is listed.
ListDrafts(t) ==
    /\ memory' = [memory EXCEPT ![t] = @ \cup session[t]]
    /\ LET kept == {[draft |-> d, file |-> drafts[d].file] : d \in stored}
           fallback == {[draft |-> d, file |-> NoFile] : d \in memory'[t]}
       IN  shown' \in {[shown EXCEPT ![t] = kept \cup fallback],
                       [shown EXCEPT ![t] = fallback]}
    /\ UNCHANGED <<drafts, stored, session, queued, runs, server, reloads>>

-----------------------------------------------------------------------------
(* The registry of running promotions.                                     *)

NewRun(file) == [phase |-> "creating", file |-> file, evidence |-> 0, deduped |-> FALSE]

With(t, d, run) == [runs EXCEPT ![t] = [x \in DOMAIN @ \cup {d} |-> IF x = d THEN run ELSE @[x]]]

\* The entry clears on settle, with a result or with an error.
Settled(t, d) == [runs EXCEPT ![t] = [x \in DOMAIN @ \ {d} |-> @[x]]]

\* promoteDraft: a draft that is promoting in this tab is joined.
Promote(t, d, file) ==
    \/ d \in DOMAIN runs[t] /\ UNCHANGED runs
    \/ d \notin DOMAIN runs[t] /\ runs' = With(t, d, NewRun(file))

InPhase(t, d, phase) == d \in DOMAIN runs[t] /\ runs[t][d].phase = phase

-----------------------------------------------------------------------------
(* Intake.                                                                 *)

\* captureFiles, to the first await: the draft of an accepted file is saved.
SaveFile(t, file, storage) ==
    LET d == Len(drafts) + 1
    IN  /\ d <= MaxDrafts
        /\ drafts' = Append(drafts, [file |-> file, tab |-> t, storage |-> storage])
        /\ Save(t, d, storage)
        /\ queued' = [queued EXCEPT ![t] = @ \cup {d}]
        /\ UNCHANGED <<shown, runs, server, reloads>>

\* captureFiles, from there: it promotes the draft with the file at hand,
\* whatever the storage kept of it.
PromoteSaved(t, d) ==
    /\ d \in queued[t]
    /\ queued' = [queued EXCEPT ![t] = @ \ {d}]
    /\ Promote(t, d, drafts[d].file)
    /\ UNCHANGED <<queue, shown, server, reloads>>

\* The capture page turns shared text into a draft and leaves it to the user.
SaveText(t, storage) ==
    LET d == Len(drafts) + 1
    IN  /\ d <= MaxDrafts
        /\ drafts' = Append(drafts, [file |-> NoFile, tab |-> t, storage |-> storage])
        /\ Save(t, d, storage)
        /\ UNCHANGED <<shown, queued, runs, server, reloads>>

\* The promote button of a row, which may be older than the queue it shows.  The
\* buttons are disabled while a click is pending, and enabled again when the page
\* is left and entered, so a click may come at any time.
ClickPromote(t, row) ==
    /\ row \in shown[t]
    /\ Promote(t, row.draft, row.file)
    /\ UNCHANGED <<queue, shown, queued, server, reloads>>

-----------------------------------------------------------------------------
(* The promotion pipeline.                                                 *)

\* Mutant of SentHash: the create carries no sha256.
NeverHashed(file) == NoFile

\* What createEvidence can deduplicate on: a metadata draft has no hash.
SentHash(file) == IF HashAvailable THEN file ELSE NoFile

\* The server: a row of the same content answers for it, else a new one does.
Answers(hash) ==
    {e \in DOMAIN evidence : hash # NoFile /\ evidence[e].hash = hash}

\* Hash, initUpload, uploadBlob, createEvidence and the preview cache of the file,
\* which cannot fail the run.  The answer of the server may be lost.
CreateEvidence(t, d) ==
    LET run == runs[t][d]
        hash == SentHash(run.file)
        created(e, found) == [run EXCEPT !.phase = "removing", !.evidence = e, !.deduped = found]
    IN  /\ InPhase(t, d, "creating")
        /\ \/ \E e \in Answers(hash) :
                /\ \/ runs' = With(t, d, created(e, TRUE))
                   \/ runs' = Settled(t, d)
                /\ UNCHANGED evidence
           \/ /\ Answers(hash) = {}
              /\ Len(evidence) < MaxEvidence
              /\ evidence' = Append(evidence, [hash |-> hash, draft |-> d])
              /\ \/ runs' = With(t, d, created(Len(evidence) + 1, FALSE))
                 \/ runs' = Settled(t, d)
        /\ UNCHANGED <<queue, shown, queued, asked, reloads>>

\* Mutant of FailBeforeCreate: a settled run removes its draft, failed or not.
FailAndRemove(t, d) ==
    /\ InPhase(t, d, "creating")
    /\ runs' = Settled(t, d)
    /\ Unsave(t, d)
    /\ UNCHANGED <<drafts, shown, queued, server, reloads>>

\* Mutant of FailBeforeCreate: a rejected run stays in the registry.
FailAndStay(t, d) ==
    /\ InPhase(t, d, "creating")
    /\ runs' = [runs EXCEPT ![t][d].phase = "rejected"]
    /\ UNCHANGED <<queue, shown, queued, server, reloads>>

\* A request of the pipeline fails before the server has created anything.
FailBeforeCreate(t, d) ==
    /\ InPhase(t, d, "creating")
    /\ runs' = Settled(t, d)
    /\ UNCHANGED <<queue, shown, queued, server, reloads>>

RemoveDraft(t, d) ==
    /\ InPhase(t, d, "removing")
    /\ Unsave(t, d)
    /\ runs' = [runs EXCEPT ![t][d].phase = "extracting"]
    /\ UNCHANGED <<drafts, shown, queued, server, reloads>>

\* The run ends; what it created is extracted in the background.
AskExtraction(t, d) ==
    /\ InPhase(t, d, "extracting")
    /\ \/ runs[t][d].deduped /\ UNCHANGED asked
       \/ ~ runs[t][d].deduped /\ asked' = Append(asked, runs[t][d].evidence)
    /\ runs' = Settled(t, d)
    /\ UNCHANGED <<queue, shown, queued, evidence, reloads>>

\* The tab is reloaded, or crashes and comes back: sessionStorage survives.
Reload(t) ==
    /\ reloads < MaxReloads
    /\ reloads' = reloads + 1
    /\ runs' = [runs EXCEPT ![t] = <<>>]
    /\ memory' = [memory EXCEPT ![t] = {}]
    /\ shown' = [shown EXCEPT ![t] = {}]
    /\ queued' = [queued EXCEPT ![t] = {}]
    /\ UNCHANGED <<drafts, stored, session, server>>

-----------------------------------------------------------------------------
Advance(t, d) ==
    \/ CreateEvidence(t, d) \/ FailBeforeCreate(t, d)
    \/ RemoveDraft(t, d) \/ AskExtraction(t, d)

Next ==
    \/ \E t \in Tabs, file \in Contents, storage \in Storages : SaveFile(t, file, storage)
    \/ \E t \in Tabs, storage \in Storages : SaveText(t, storage)
    \/ \E t \in Tabs : ListDrafts(t) \/ Reload(t)
    \/ \E t \in Tabs : \E d \in queued[t] : PromoteSaved(t, d)
    \/ \E t \in Tabs : \E row \in shown[t] : ClickPromote(t, row)
    \/ \E t \in Tabs : \E d \in DOMAIN runs[t] : Advance(t, d)

Spec == Init /\ [][Next]_vars

\* The browser runs every continuation, and ends every request with an answer or
\* with an error.
FairSpec == Spec /\ \A t \in Tabs, d \in 1..MaxDrafts : WF_vars(Advance(t, d))

-----------------------------------------------------------------------------
(* What failures, lost answers, reloads and other tabs leave intact.       *)

TypeOK ==
    /\ drafts \in Seq([file : Files, tab : Tabs, storage : Storages])
    /\ stored \subseteq DOMAIN drafts
    /\ \A t \in Tabs :
        /\ memory[t] \subseteq DOMAIN drafts
        /\ session[t] \subseteq DOMAIN drafts
        /\ shown[t] \subseteq Rows
        /\ queued[t] \subseteq DOMAIN drafts
        /\ DOMAIN runs[t] \subseteq DOMAIN drafts
        /\ \A d \in DOMAIN runs[t] : runs[t][d] \in Runs
    /\ evidence \in Seq([hash : Files, draft : Nat])
    /\ asked \in Seq(Nat)
    /\ reloads \in 0..MaxReloads

\* Evidence that holds what was captured in draft d.
Created(d) ==
    \E e \in DOMAIN evidence :
        \/ evidence[e].draft = d
        \/ drafts[d].file # NoFile /\ evidence[e].hash = drafts[d].file

\* A draft the user was told is in IndexedDB stays there until the server has it,
\* whichever promotions of it fail, whichever tab dies.
PersistentDraftKept ==
    \A d \in DOMAIN drafts : drafts[d].storage = "indexeddb" => d \in stored \/ Created(d)

\* A file saved in IndexedDB becomes one evidence object, over every retry, lost
\* answer and other tab, and over capturing it again.
PersistentFileCreatedOnce ==
    HashAvailable =>
        \A e, f \in DOMAIN evidence :
            LET d == drafts[evidence[e].draft]
                c == drafts[evidence[f].draft]
            IN  /\ d.file = c.file /\ d.file # NoFile
                /\ d.storage = "indexeddb" /\ c.storage = "indexeddb"
                => e = f

\* No evidence is extracted twice by promotions of it: a duplicate leaves the
\* log of the voucher untouched.
ExtractedAtMostOnce == \A i, j \in DOMAIN asked : asked[i] = asked[j] => i = j

\* A promotion settles, so that a retry starts a fresh one.
EveryRunSettles ==
    \A t \in Tabs, d \in 1..MaxDrafts : d \in DOMAIN runs[t] ~> d \notin DOMAIN runs[t]

-----------------------------------------------------------------------------
(* What the code's texts promise and the code does not keep.               *)

\* "draft saved for this browser tab only": it stays in its tab until promoted.
TabDraftKept ==
    \A d \in DOMAIN drafts :
        LET t == drafts[d].tab
        IN  drafts[d].storage = "session" => d \in session[t] \cup memory[t] \/ Created(d)

\* A duplicate already ran its extraction, so a promotion that finds one need
\* not ask for it.
DuplicateWasExtracted ==
    \A t \in Tabs : \A d \in DOMAIN runs[t] :
        runs[t][d].phase = "extracting" /\ runs[t][d].deduped =>
            \E i \in DOMAIN asked : asked[i] = runs[t][d].evidence

\* A file in IndexedDB becomes one evidence object and is extracted once at most,
\* whichever tabs promote it, fail, or lose an answer.
ProcessedOnce ==
  /\ PersistentFileCreatedOnce
  /\ ExtractedAtMostOnce
=============================================================================
