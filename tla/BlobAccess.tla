------------------------------ MODULE BlobAccess ------------------------------
(***************************************************************************)
(* AzureBlobUploader: short-lived URLs for one blob, signed with a user    *)
(* delegation key that is cached and replaced before it expires.  Uploads  *)
(* (initUpload) and reads (mintReadSas, for previews and for extraction)   *)
(* differ in the permission only.  Time is in minutes.                     *)
(***************************************************************************)
EXTENDS Integers

CONSTANTS
  Mints,        \* calls of initUpload and mintReadSas
  Lifetime,     \* DELEGATION_KEY_LIFETIME_MS
  Margin,       \* a cached key is used while it lives longer than this
  SasExpiry,    \* DEFAULT_SAS_EXPIRY_SECONDS
  MaxDelay,     \* the longest getUserDelegationKey takes
  LastMinute    \* bound: last minute

ASSUME BlobConstants ==
  /\ {Lifetime, Margin, SasExpiry, MaxDelay, LastMinute} \subseteq Nat
  /\ MaxDelay <= Margin /\ Margin < SasExpiry /\ SasExpiry < Lifetime

VARIABLES
  minute,
  cachedKey,   \* when the cached key expires, 0 without one
  mint         \* each call: its state, when it began, and what it was signed with

blobVars == <<minute, cachedKey, mint>>

NotMinted == [state |-> "idle", at |-> 0, expires |-> 0, key |-> 0]

KeyUsableToTheEnd == cachedKey > minute

\* The cached key is good for more than the margin.
KeyUsable == cachedKey > minute + Margin

\* The expiry of the URL is fixed before the key is awaited.
Begin(c) ==
  /\ mint[c].state = "idle"
  /\ LET began == [NotMinted EXCEPT !.at = minute, !.expires = minute + SasExpiry]
     IN mint' = [mint EXCEPT ![c] =
          IF KeyUsable THEN [began EXCEPT !.state = "minted", !.key = cachedKey]
          ELSE [began EXCEPT !.state = "asking", !.key = minute + Lifetime]]
  /\ UNCHANGED <<minute, cachedKey>>

\* The key the service issued is cached, over whatever came in meanwhile: the
\* calls that found no key each asked for one.
KeyArrives(c) ==
  /\ mint[c].state = "asking"
  /\ cachedKey' = mint[c].key
  /\ mint' = [mint EXCEPT ![c].state = "minted"]
  /\ UNCHANGED minute

\* The service refuses or cannot be reached: the call throws.
KeyFails(c) ==
  /\ mint[c].state = "asking"
  /\ mint' = [mint EXCEPT ![c] = [NotMinted EXCEPT !.state = "failed"]]
  /\ UNCHANGED <<minute, cachedKey>>

MinutePasses ==
  /\ minute < LastMinute
  /\ \A c \in Mints : mint[c].state = "asking" => minute < mint[c].at + MaxDelay
  /\ minute' = minute + 1
  /\ UNCHANGED <<cachedKey, mint>>

BlobInit ==
  /\ minute = 0
  /\ cachedKey = 0
  /\ mint = [c \in Mints |-> NotMinted]

BlobNext ==
  \/ \E c \in Mints : Begin(c) \/ KeyArrives(c) \/ KeyFails(c)
  \/ MinutePasses

BlobSpec == BlobInit /\ [][BlobNext]_blobVars

\* What the storage service does with a URL: neither it nor the key that
\* signed it may have expired.
StorageAccepts(c) == minute < mint[c].expires /\ minute < mint[c].key

\* Whoever got a URL can use it for the margin at least: no caller is handed a
\* URL whose key is about to end (blob.ts:159).
MintedUrlWorks ==
  \A c \in Mints :
    mint[c].state = "minted" /\ minute <= mint[c].at + Margin => StorageAccepts(c)
=============================================================================
