------------------------------ MODULE LocalData ------------------------------
(***************************************************************************)
(* What the web app keeps on a device and how sign-out clears it:          *)
(* apps/web/lib/local-data.ts (the registry and the sweep),                *)
(* lib/auth/session.ts, components/auth/account-menu.tsx, and the          *)
(* connections to IndexedDB that lib/draft-queue.ts opens and leaves open. *)
(* Several tabs of one browser share the stores, except sessionStorage.    *)
(***************************************************************************)
EXTENDS Integers, Sequences, FiniteSets

CONSTANTS
  DeviceTabs,     \* open tabs of the browser
  WrittenAgain,   \* the registry entries the app may write at any time
  Refusals,       \* sets of kinds of store that may throw together
  MaxRewrites     \* bound: writes of a run

ASSUME LocalDataConstants == "device" \notin DeviceTabs

VARIABLES
  kept,           \* the items <<entry, owner>> on the device
  page,           \* tab -> where its page is, and the entry its sweep is at
  connected,      \* tabs with an open connection to the drafts database
  deleting,       \* is a deletion of the drafts database waiting for them?
  refuses,        \* the kinds of store that throw on this device
  late,           \* tab -> items written after its sweep passed them (observation)
  rewrites        \* writes so far

localDataVars == <<kept, page, connected, deleting, refuses, late, rewrites>>

Entry(id, storage, cleared) == [id |-> id, storage |-> storage, clearedOnSignOut |-> cleared]

LocalDataRegistry == <<
  Entry("assistantThreads", "localStorage", TRUE), Entry("assistantThreadsLegacy", "localStorage", TRUE),
  Entry("dashboardLayout", "localStorage", TRUE), Entry("onboarding", "localStorage", TRUE),
  Entry("theme", "localStorage", FALSE), Entry("captureDraftsSession", "sessionStorage", TRUE),
  Entry("captureDraftsDb", "indexedDB", TRUE), Entry("staticAssetCache", "cacheStorage", TRUE),
  Entry("localeCookie", "cookie", FALSE), Entry("supabaseSession", "localStorage", TRUE) >>

Entries == DOMAIN LocalDataRegistry

Owner(i, tab) == IF LocalDataRegistry[i].storage = "sessionStorage" THEN tab ELSE "device"

Items == {<<i, Owner(i, tab)>> : i \in Entries, tab \in DeviceTabs}

DraftsDb == CHOOSE i \in Entries : LocalDataRegistry[i].id = "captureDraftsDb"

DbItem == <<DraftsDb, "device">>

LocalDataInit ==
  /\ kept = Items
  /\ page = [tab \in DeviceTabs |-> [at |-> "app", entry |-> 0]]
  /\ connected \in SUBSET DeviceTabs
  /\ deleting = FALSE
  /\ refuses \in Refusals
  /\ late = [tab \in DeviceTabs |-> {}]
  /\ rewrites = 0

\* An open page writes one of the app's stores; a connection to the database
\* is opened for it and stays open, unless a deletion is in the way.
Write(tab) ==
  /\ page[tab].at \in {"app", "revoking", "sweeping"}
  /\ rewrites < MaxRewrites
  /\ rewrites' = rewrites + 1
  /\ \E i \in Entries : \E item \in {<<i, Owner(i, tab)>>} :
       /\ LocalDataRegistry[i].id \in WrittenAgain
       /\ LocalDataRegistry[i].storage \notin refuses
       /\ (i = DraftsDb => ~deleting)
       /\ connected' = IF i = DraftsDb THEN connected \cup {tab} ELSE connected
       /\ kept' = kept \cup {item}
       /\ late' = [other \in DeviceTabs |-> IF i < page[other].entry \/ page[other].at = "login"
                                               THEN late[other] \cup {item} ELSE late[other]]
  /\ UNCHANGED <<page, deleting, refuses>>

\* handleSignOut: once per page; supabase.auth.signOut is on its way.
ClickSignOut(tab) ==
  /\ page[tab].at = "app"
  /\ page' = [page EXCEPT ![tab] = [at |-> "revoking", entry |-> 0]]
  /\ late' = [late EXCEPT ![tab] = {}]
  /\ UNCHANGED <<kept, connected, deleting, refuses, rewrites>>

\* Mutant: an error of the revocation ends the sign-out.
RevokedOrReturn(tab) ==
  /\ page[tab].at = "revoking"
  /\ \E failed \in BOOLEAN :
       page' = [page EXCEPT ![tab] = IF failed THEN [at |-> "leaving", entry |-> 0]
                                               ELSE [at |-> "sweeping", entry |-> 1]]
  /\ UNCHANGED <<kept, connected, deleting, refuses, late, rewrites>>

\* The revocation answers; its error, if any, does not stop the sweep.
Revoked(tab) ==
  /\ page[tab].at = "revoking"
  /\ page' = [page EXCEPT ![tab] = [at |-> "sweeping", entry |-> 1]]
  /\ UNCHANGED <<kept, connected, deleting, refuses, late, rewrites>>

\* deleteIndexedDb: with connections open it is blocked, resolves, and runs later.
DeleteIndexedDb ==
  IF connected = {} THEN kept' = kept \ {DbItem} /\ deleting' = FALSE
                    ELSE deleting' = TRUE /\ UNCHANGED kept

\* The catch of one entry: the loop goes on with the next one.
NextEntry(i) == i + 1

\* One round of clearAllLocalData's loop.
SweepEntry(tab) ==
  LET i == page[tab].entry
      entry == LocalDataRegistry[i]
      item == <<i, Owner(i, tab)>>
      Go(next) == page' = [page EXCEPT ![tab] = IF next \in Entries THEN [at |-> "sweeping", entry |-> next]
                                                             ELSE [at |-> "leaving", entry |-> next]]
  IN  /\ page[tab].at = "sweeping"
      /\ \/ /\ ~entry.clearedOnSignOut
            /\ Go(i + 1)
            /\ UNCHANGED <<kept, deleting>>
         \/ /\ entry.clearedOnSignOut
            /\ entry.storage \in refuses
            /\ Go(NextEntry(i))
            /\ UNCHANGED <<kept, deleting>>
         \/ /\ entry.clearedOnSignOut
            /\ entry.storage \notin refuses \cup {"indexedDB"}
            /\ kept' = kept \ {item}
            /\ Go(i + 1)
            /\ UNCHANGED deleting
         \/ /\ entry.clearedOnSignOut
            /\ entry.storage \in {"indexedDB"} \ refuses
            /\ DeleteIndexedDb
            /\ Go(i + 1)
      /\ UNCHANGED <<connected, refuses, late, rewrites>>

\* A page goes away: its connections close and a deletion may be able to run.
Unload(tab) ==
  /\ connected' = connected \ {tab}
  /\ deleting' = (deleting /\ connected' # {})
  /\ kept' = IF deleting /\ connected' = {} THEN kept \ {DbItem} ELSE kept

\* window.location.assign("/login"): a hard navigation.
Leave(tab) ==
  /\ page[tab].at = "leaving"
  /\ Unload(tab)
  /\ page' = [page EXCEPT ![tab].at = "login"]
  /\ UNCHANGED <<refuses, late, rewrites>>

\* Somebody signs in.
SignIn(tab) ==
  /\ page[tab].at = "login"
  /\ page' = [page EXCEPT ![tab] = [at |-> "app", entry |-> 0]]
  /\ UNCHANGED <<kept, connected, deleting, refuses, late, rewrites>>

LocalDataNext ==
  \E tab \in DeviceTabs :
    Write(tab) \/ ClickSignOut(tab) \/ Revoked(tab) \/ SweepEntry(tab) \/ Leave(tab) \/ SignIn(tab)

LocalDataFairness ==
  \A tab \in DeviceTabs : WF_localDataVars(Revoked(tab) \/ SweepEntry(tab) \/ Leave(tab))

LocalDataSpec == LocalDataInit /\ [][LocalDataNext]_localDataVars /\ LocalDataFairness

-----------------------------------------------------------------------------
Departed(tab) ==
  {item \in kept : /\ LocalDataRegistry[item[1]].clearedOnSignOut
                   /\ LocalDataRegistry[item[1]].storage \notin refuses
                   /\ item[2] \in {"device", tab}}

(* What is still on the device when a tab shows the login page is in a     *)
(* store that throws, or was written by a live page after the sweep had    *)
(* passed it, or is the database whose deletion waits for a connection of  *)
(* another tab: a failed revocation, one refusing store or a blocked       *)
(* deletion never ends the sweep early.                                    *)
RemainsForAReason ==
  \A tab \in DeviceTabs :
    page[tab].at = "login" =>
      Departed(tab) \subseteq late[tab] \cup (IF deleting THEN {DbItem} ELSE {})

(* A sign-out ends at the login page, also with the page's own connections *)
(* and those of other tabs in the way of the deletion of the database.     *)
SignOutEnds == \A tab \in DeviceTabs : page[tab].at = "revoking" ~> page[tab].at = "login"
=============================================================================
