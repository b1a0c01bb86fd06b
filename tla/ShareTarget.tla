----------------------------- MODULE ShareTarget -----------------------------
(***************************************************************************)
(* Content shared to the installed web app: the POST handler of            *)
(* apps/web/app/share/route.ts, which forwards files to the API one by     *)
(* one, lib/share-intake-policy.ts, and the effect of the capture screen   *)
(* (components/screens/capture-screen.tsx) that turns the parameters of    *)
(* the redirect into a draft.  Every call to the API may be refused, and   *)
(* the answer to the creating one may be lost after it was done.           *)
(***************************************************************************)
EXTENDS Integers, Sequences, FiniteSets

CONSTANTS
  Shares,         \* requests: their files, whether they carry text and a link, whether
                  \* they come from a foreign page, and the state of their body
  Intakes,        \* [runtimeMode, api |-> is apiBaseUrl set?]
  MaxShareFiles,  \* MAX_SHARE_FILES
  MaxReloads      \* bound: reloads of the capture page

ASSUME ShareConstants ==
  /\ Shares \subseteq [files : Seq({"good", "bad"}), text : BOOLEAN, url : BOOLEAN,
                       foreign : BOOLEAN, body : {"whole", "too large", "malformed"}]
  /\ MaxShareFiles \in Nat

VARIABLES
  share,          \* the share that was posted
  intake,         \* the deployment it was posted to
  route,          \* the handler: where it is, at which file, its two counts
  packets,        \* files that exist as evidence on the API, and carry the text
  lost,           \* files whose creation was done but not answered (observation)
  url,            \* the parameters of the capture page's address
  screen,         \* the capture page: consumed ref and effects left to run
  drafts,         \* drafts made of the share: what each carries
  reloads         \* reloads so far

shareVars == <<share, intake, route, packets, lost, url, screen, drafts, reloads>>

NoParams == [text |-> FALSE, url |-> FALSE, promoted |-> 0, pending |-> 0, authRequired |-> FALSE]

ShareInit ==
  /\ share \in Shares
  /\ intake \in Intakes
  /\ route = [at |-> "posted", file |-> 1, promoted |-> 0, failed |-> 0]
  /\ packets = {}
  /\ lost = {}
  /\ url = NoParams
  /\ screen = [mounted |-> FALSE, consumed |-> FALSE, effects |-> 0]
  /\ drafts = <<>>
  /\ reloads = 0

DecideShareFileIntake ==
  IF Len(share.files) = 0 THEN "noop"
  ELSE IF intake.runtimeMode = "normal" THEN "refuse-auth"
  ELSE IF intake.api THEN "forward" ELSE "pending-unreachable"

\* What rejectDisallowedShareRequest answers with 403 or 413: a request of
\* another site or origin, and one that announces more than MAX_SHARE_BODY_BYTES.
Disallowed == share.foreign \/ share.body = "too large"

\* Title, text and link go to the capture page when no file was promoted.
HandedOn(promoted, field) == promoted = 0 /\ field

Params(promoted, pending, authRequired) ==
  [text |-> HandedOn(promoted, share.text), url |-> HandedOn(promoted, share.url),
   promoted |-> promoted, pending |-> pending, authRequired |-> authRequired]

\* The redirect to the capture page, which then mounts; in development React
\* runs the effect of a mount twice.
Redirect(params) ==
  /\ url' = params
  /\ screen' = [mounted |-> TRUE, consumed |-> FALSE, effects |-> 2]
  /\ route' = [route EXCEPT !.at = "answered"]
  /\ UNCHANGED <<share, intake, packets, lost, drafts, reloads>>

\* POST up to the forwarding of the files: the request is refused, or its body
\* cannot be read and the redirect carries nothing, or the intake policy decides.
PostShare ==
  /\ route.at = "posted"
  /\ \/ /\ Disallowed
        /\ route' = [route EXCEPT !.at = "rejected"]
        /\ UNCHANGED <<share, intake, packets, lost, url, screen, drafts, reloads>>
     \/ /\ ~Disallowed /\ share.body = "malformed"
        /\ Redirect(NoParams)
     \/ /\ ~Disallowed /\ share.body = "whole"
        /\ \/ /\ DecideShareFileIntake = "forward"
              /\ route' = [route EXCEPT !.at = "forwarding"]
              /\ UNCHANGED <<share, intake, packets, lost, url, screen, drafts, reloads>>
           \/ /\ DecideShareFileIntake = "refuse-auth"
              /\ Redirect(Params(0, Len(share.files), TRUE))
           \/ /\ DecideShareFileIntake = "pending-unreachable"
              /\ Redirect(Params(0, Len(share.files), FALSE))
           \/ /\ DecideShareFileIntake = "noop"
              /\ Redirect(Params(0, 0, FALSE))

AtFile == route.at \in {"forwarding", "uploaded"} /\ route.file <= Len(share.files) /\ route.file <= MaxShareFiles

\* promoted or failed counts one more, and the loop goes on.
Counted(count) == [route EXCEPT ![count] = @ + 1, !.file = @ + 1, !.at = "forwarding"]

\* A file that is not accepted, or a call of its that is refused.
FileFails ==
  /\ AtFile
  /\ route' = Counted("failed")
  /\ UNCHANGED <<share, intake, packets, lost, url, screen, drafts, reloads>>

\* uploads/init answered and the bytes are put.
FileUploaded ==
  /\ AtFile /\ route.at = "forwarding"
  /\ share.files[route.file] = "good"
  /\ route' = [route EXCEPT !.at = "uploaded"]
  /\ UNCHANGED <<share, intake, packets, lost, url, screen, drafts, reloads>>

\* The evidence is created with the shared text; its answer may be lost.
FileCreated ==
  /\ AtFile /\ route.at = "uploaded"
  /\ packets' = packets \cup {route.file}
  /\ \/ /\ route' = Counted("promoted")
        /\ UNCHANGED lost
     \/ /\ route' = Counted("failed")
        /\ lost' = lost \cup {route.file}
  /\ UNCHANGED <<share, intake, url, screen, drafts, reloads>>

BeyondTheCap == IF Len(share.files) > MaxShareFiles THEN Len(share.files) - MaxShareFiles ELSE 0

\* The loop is done.
AnswerShare ==
  /\ route.at = "forwarding"
  /\ ~AtFile
  /\ Redirect(Params(route.promoted, route.failed + BeyondTheCap, FALSE))

\* Mutant: the effect has no ref to remember by.
ConsumedForgotten == FALSE

\* The ref that the first run of the effect sets.
ConsumedRef == screen.consumed

(* The effect of the capture screen: one draft of what the address         *)
(* describes; the parameters are cleared later, by ClearParams.            *)
ScreenEffect ==
  /\ screen.mounted /\ screen.effects > 0
  /\ LET content == url.text \/ url.url
         runs == (content \/ url.promoted > 0) /\ ~ConsumedRef
     IN  /\ drafts' = IF runs /\ content THEN Append(drafts, [text |-> url.text, url |-> url.url]) ELSE drafts
         /\ screen' = [screen EXCEPT !.effects = @ - 1, !.consumed = @ \/ runs]
  /\ UNCHANGED <<share, intake, route, packets, lost, url, reloads>>

\* The address is rewritten after the effect ran; the banner's count stays.
ClearParams ==
  /\ screen.mounted /\ screen.consumed
  /\ url' = [url EXCEPT !.text = FALSE, !.url = FALSE, !.promoted = 0]
  /\ UNCHANGED <<share, intake, route, packets, lost, screen, drafts, reloads>>

\* The user reloads the capture page.
Reload ==
  /\ screen.mounted
  /\ reloads < MaxReloads
  /\ reloads' = reloads + 1
  /\ screen' = [mounted |-> TRUE, consumed |-> FALSE, effects |-> 2]
  /\ UNCHANGED <<share, intake, route, packets, lost, url, drafts>>

ShareNext ==
  PostShare \/ FileFails \/ FileUploaded \/ FileCreated \/ AnswerShare \/ ScreenEffect \/ ClearParams \/ Reload

ShareSpec == ShareInit /\ [][ShareNext]_shareVars

-----------------------------------------------------------------------------
Answered == route.at = "answered"

\* A request the handler lets in and the body of which it can read.
LetIn == ~Disallowed /\ share.body = "whole"

(* Every file of a share that is let in is accounted for on the capture    *)
(* page: it is promoted and exists as evidence, or the banner counts it as *)
(* pending, files over the cap, refused ones and those of a deployment     *)
(* that cannot take them included; a pending one exists already only if    *)
(* its answer was lost.                                                    *)
EveryFileIsReported ==
  Answered /\ LetIn =>
    /\ route.promoted = Cardinality(packets \ lost)
    /\ url.pending = Len(share.files) - Cardinality(packets \ lost)

(* A request that is refused, or that cannot be read, is dropped whole:    *)
(* no file of it is evidence or counted, and no text of it is in a draft.  *)
(* Nothing tells the user of it but the status of a refusal.               *)
DroppedWhole == ~LetIn => packets = {} /\ drafts = <<>> /\ url = NoParams

(* Shared text reaches the books on one path only: with the evidence of a  *)
(* promoted file, or in a draft on the device.  Twice takes an answer lost *)
(* after the evidence was made.                                            *)
TextTakesOnePath ==
  (\E i \in DOMAIN drafts : drafts[i].text) => packets \subseteq lost

(* However often the effect runs, a mount makes one draft of a share: a    *)
(* further one takes a reload before the address was rewritten.            *)
OneDraftPerMount == Len(drafts) <= 1 + reloads

\* Of a share that is let in every file is counted, the text takes one path, and a
\* page makes at most one draft of it; of any other, nothing is taken.
ShareIsTakenOnce ==
  /\ EveryFileIsReported
  /\ DroppedWhole
  /\ TextTakesOnePath
  /\ OneDraftPerMount
=============================================================================
