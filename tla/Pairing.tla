------------------------------ MODULE Pairing ------------------------------
(***************************************************************************)
(* Pairing of a tap: with a token (POST /api/pair of tap-api, /taps/pair   *)
(* of the api), or announced by the tap and approved by an admin           *)
(* (auto-pair).  A key pair stands for itself, its CSR and its             *)
(* fingerprint.  The statements of the api run in transactions that lock   *)
(* the row; at the tap everything between two awaits is one step, which a  *)
(* crash may cut short after any of the files written.  The operator of a  *)
(* tap pairs one way at a time.                                            *)
(***************************************************************************)
EXTENDS Naturals

CONSTANTS
  Callers,                   \* of _check_auto_pair_status: the poller, the status endpoint
  MaxKeys, MaxCrashes        \* bounds

PairingAssumption == {MaxKeys, MaxCrashes} \subseteq Nat

NoKey == 0
Keys == 1..MaxKeys

VARIABLES
  pending,          \* key -> status of its row of pending_taps, or "none"
  rows,             \* key -> its rows in taps (history)
  token, tokenRows, \* the pairing token: "valid", "used" or "expired"; rows for it (history)
  recent,           \* an announcement of this address within the last 60 s
  state,            \* auto-pair-state.json: its key, or NoKey
  keyFile, pemFile, caFile,  \* what is in /etc/cyjan: the key of each, NoKey without a file
  start,            \* api_auto_pair_start that waits for the master: its key
  reply,            \* what the master answered it, "none" before
  pair,             \* api_pair that waits: its key
  check,            \* caller -> [key, answer] of its check, key NoKey without one
  keys, crashes,    \* generated; restarts of tap-api
  torn, overtaken   \* an installation was cut short; the state of a key was removed
                    \* by the late answer for another one (history)

pairingVars == <<pending, rows, token, tokenRows, recent, state, keyFile, pemFile, caFile, start,
                 reply, pair, check, keys, crashes, torn, overtaken>>
masterVars == <<pending, rows, token, tokenRows, recent>>
fileVars == <<keyFile, pemFile, caFile>>
callVars == <<start, reply, pair, check>>
historyVars == <<keys, crashes, torn, overtaken>>
tapVars == <<state, fileVars, callVars, historyVars>>

NoCheck == [key |-> NoKey, answer |-> "none"]

PairingInit ==
  /\ pending = [k \in Keys |-> "none"] /\ rows = [k \in Keys |-> 0]
  /\ token = "valid" /\ tokenRows = 0 /\ recent = FALSE
  /\ state = NoKey /\ keyFile = NoKey /\ pemFile = NoKey /\ caFile = NoKey
  /\ start = NoKey /\ reply = "none" /\ pair = NoKey /\ check = [c \in Callers |-> NoCheck]
  /\ keys = 0 /\ crashes = 0 /\ torn = FALSE /\ overtaken = FALSE

Paired(k) == k = keyFile /\ k = pemFile /\ k = caFile

-----------------------------------------------------------------------------
(* The master.                                                             *)

\* announce_tap for the request that waits; a row that exists keeps its status.
Announce ==
  /\ start # NoKey /\ reply = "none"
  /\ IF recent THEN reply' = "refused" /\ UNCHANGED <<pending, recent>>
     ELSE /\ recent' = TRUE
          /\ pending' = IF pending[start] = "none" THEN [pending EXCEPT ![start] = "pending"]
                        ELSE pending
          /\ reply' = pending'[start]
  /\ UNCHANGED <<rows, token, tokenRows, state, fileVars, start, pair, check, historyVars>>

\* A minute passes.
RateLimitEnds == recent /\ recent' = FALSE /\ UNCHANGED <<pending, rows, token, tokenRows, tapVars>>

\* Bug: a row that is not pending any more is approved as well.
MayApproveAny(k) == pending[k] # "none"
MayApprove(k) == pending[k] = "pending"

\* approve_pending_tap, twice perhaps from two admins.
Approve(k) ==
  /\ MayApprove(k)
  /\ pending' = [pending EXCEPT ![k] = "approved"]
  /\ rows' = [rows EXCEPT ![k] = IF @ < 2 THEN @ + 1 ELSE @]
  /\ UNCHANGED <<token, tokenRows, recent, tapVars>>

Reject(k) ==
  /\ pending[k] = "pending" /\ pending' = [pending EXCEPT ![k] = "rejected"]
  /\ UNCHANGED <<rows, token, tokenRows, recent, tapVars>>

TokenExpires ==
  /\ token = "valid" /\ token' = "expired"
  /\ UNCHANGED <<pending, rows, tokenRows, recent, tapVars>>

\* Bug: used_at is not asked for.
TokenAcceptedAgain == token # "expired"
TokenAccepted == token = "valid"

\* Bug: the certificate is written before its key.
WriteFilesCertFirst(k, n) ==
  /\ pemFile' = IF n >= 1 THEN k ELSE pemFile
  /\ keyFile' = IF n >= 2 THEN k ELSE keyFile
  /\ caFile' = IF n >= 3 THEN k ELSE caFile

\* The first n of the three files, the key first.
WriteFiles(k, n) ==
  /\ keyFile' = IF n >= 1 THEN k ELSE keyFile
  /\ pemFile' = IF n >= 2 THEN k ELSE pemFile
  /\ caFile' = IF n >= 3 THEN k ELSE caFile

\* tap-api starts again: no call is left.
ForgetCalls ==
  start' = NoKey /\ reply' = "none" /\ pair' = NoKey /\ check' = [c \in Callers |-> NoCheck]

Crashing(n, all) == n < all /\ crashes < MaxCrashes /\ crashes' = crashes + 1 /\ ForgetCalls

-----------------------------------------------------------------------------
(* With a token.                                                           *)

\* api_pair: 409 with a certificate.
PairBegins ==
  /\ pemFile = NoKey /\ pair = NoKey /\ start = NoKey /\ state = NoKey /\ keys < MaxKeys
  /\ \A c \in Callers : check[c] = NoCheck
  /\ keys' = keys + 1 /\ pair' = keys'
  /\ UNCHANGED <<masterVars, state, fileVars, start, reply, check, crashes, torn, overtaken>>

\* pair_tap, and the certificate is installed.
PairSucceeds ==
  /\ pair # NoKey /\ TokenAccepted
  /\ token' = "used" /\ tokenRows' = IF tokenRows < 2 THEN tokenRows + 1 ELSE tokenRows
  /\ rows' = [rows EXCEPT ![pair] = 1]
  /\ \E n \in 0..3 :
       /\ WriteFiles(pair, n)
       /\ \/ n = 3 /\ pair' = NoKey /\ UNCHANGED <<start, reply, check, crashes, torn>>
          \/ Crashing(n, 3) /\ torn' = TRUE
  /\ UNCHANGED <<pending, recent, state, keys, overtaken>>

\* The master refuses, or its answer is lost, the tap created or not.
PairFails ==
  /\ pair # NoKey /\ pair' = NoKey
  /\ \/ ~TokenAccepted /\ UNCHANGED <<token, tokenRows, rows>>
     \/ /\ TokenAccepted /\ token' = "used" /\ rows' = [rows EXCEPT ![pair] = 1]
        /\ tokenRows' = IF tokenRows < 2 THEN tokenRows + 1 ELSE tokenRows
  /\ UNCHANGED <<pending, recent, state, fileVars, start, reply, check, historyVars>>

-----------------------------------------------------------------------------
(* Announced.                                                              *)

\* api_auto_pair_start: the key of the state file, a new one without.
StartBegins ==
  /\ pemFile = NoKey /\ start = NoKey /\ pair = NoKey
  /\ IF state # NoKey THEN start' = state /\ UNCHANGED keys
     ELSE keys < MaxKeys /\ keys' = keys + 1 /\ start' = keys'
  /\ UNCHANGED <<masterVars, state, fileVars, reply, pair, check, crashes, torn, overtaken>>

\* The state is written when the master took the announcement, whatever is
\* there by now.
StartEnds ==
  /\ start # NoKey /\ reply # "none"
  /\ state' = IF reply = "refused" THEN state ELSE start
  /\ start' = NoKey /\ reply' = "none"
  /\ UNCHANGED <<masterVars, fileVars, pair, check, historyVars>>

StartFails ==
  /\ start # NoKey /\ start' = NoKey /\ reply' = "none"
  /\ UNCHANGED <<masterVars, state, fileVars, pair, check, historyVars>>

\* _check_auto_pair_status reads the state file; the poller only while there is
\* no certificate.
CheckBegins(c) ==
  /\ state # NoKey /\ check[c] = NoCheck /\ (c = "poller" => pemFile = NoKey)
  /\ check' = [check EXCEPT ![c].key = state]
  /\ UNCHANGED <<masterVars, state, fileVars, start, reply, pair, historyVars>>

\* A tick of the poller with nothing to do.
NothingToPoll == (state = NoKey \/ pemFile # NoKey) /\ UNCHANGED pairingVars

\* announce_status.
CheckAnswered(c) ==
  /\ check[c].key # NoKey /\ check[c].answer = "none"
  /\ check' = [check EXCEPT ![c].answer = pending[check[c].key]]
  /\ UNCHANGED <<masterVars, state, fileVars, start, reply, pair, historyVars>>

\* The state file goes last, and whatever key it holds.
Approved(c, k) ==
  /\ check[c].answer = "approved"
  /\ \E n \in 0..4 :
       /\ WriteFiles(k, n)
       /\ state' = IF n = 4 THEN NoKey ELSE state
       /\ overtaken' = (overtaken \/ (n = 4 /\ state \notin {NoKey, k}))
       /\ \/ n = 4 /\ check' = [check EXCEPT ![c] = NoCheck] /\ UNCHANGED <<start, reply, pair, crashes, torn>>
          \/ Crashing(n, 4) /\ torn' = TRUE

\* Bug: an answer that is not the approval ends the pairing.
GivesUpAny(answer) == answer # "approved"
GivesUp(answer) == answer = "rejected"

NotApproved(c, k) ==
  /\ check[c].answer \notin {"none", "approved"}
  /\ state' = IF GivesUp(check[c].answer) THEN NoKey ELSE state
  /\ overtaken' = (overtaken \/ (GivesUp(check[c].answer) /\ state \notin {NoKey, k}))
  /\ check' = [check EXCEPT ![c] = NoCheck] /\ UNCHANGED <<fileVars, start, reply, pair, crashes, torn>>

CheckEnds(c) ==
  /\ Approved(c, check[c].key) \/ NotApproved(c, check[c].key)
  /\ UNCHANGED <<masterVars, keys>>

PairingNext ==
  \/ Announce \/ RateLimitEnds \/ TokenExpires
  \/ PairBegins \/ PairSucceeds \/ PairFails \/ StartBegins \/ StartEnds \/ StartFails
  \/ NothingToPoll
  \/ \E k \in Keys : Approve(k) \/ Reject(k)
  \/ \E c \in Callers : CheckBegins(c) \/ CheckAnswered(c) \/ CheckEnds(c)

PairingSpec == PairingInit /\ [][PairingNext]_pairingVars

\* The callers ask again and again, and are answered.
PairingFairness ==
  \A c \in Callers : /\ WF_pairingVars(CheckBegins(c)) /\ WF_pairingVars(CheckAnswered(c))
                     /\ WF_pairingVars(CheckEnds(c))

PairingFairSpec == PairingSpec /\ PairingFairness

-----------------------------------------------------------------------------
PairingTypeOK ==
  /\ pending \in [Keys -> {"none", "pending", "approved", "rejected"}]
  /\ rows \in [Keys -> 0..2] /\ token \in {"valid", "used", "expired"} /\ tokenRows \in 0..2
  /\ {state, keyFile, pemFile, caFile, start, pair, keys} \subseteq Keys \cup {NoKey}
  /\ reply \in {"none", "refused", "pending", "approved", "rejected"}
  /\ \A c \in Callers : check[c] \in [key: Keys \cup {NoKey},
                                      answer: {"none", "pending", "approved", "rejected"}]
  /\ {recent, torn, overtaken} \subseteq BOOLEAN /\ crashes \in 0..MaxCrashes

\* A token makes one tap, an approval makes one, a rejection none; however many
\* calls compete.
OneTapEach ==
  /\ tokenRows <= 1
  /\ \A k \in Keys : rows[k] <= 1 /\ (pending[k] \in {"pending", "rejected"} => rows[k] = 0)

\* A certificate on disk is the one for the key next to it, and the master
\* knows it: wherever a crash cut an installation short, and whichever of two
\* checks answered.  Only both together part them: an answer for another key
\* came so late that it removed the state file, a third key was announced and
\* installed, and the installation of the second one, its answer late as well,
\* breaks off after the key.
CertificateFitsKey ==
  pemFile # NoKey => rows[pemFile] = 1 /\ (keyFile = pemFile \/ (torn /\ overtaken))

\* A pairing makes one tap, and its certificate fits its key.
PairingOK == PairingTypeOK /\ OneTapEach /\ CertificateFitsKey

\* An approved key whose state file is there gets installed.  Only two things
\* prevent it: a crash between two of the files, and a late answer for another
\* key, which removes the state file.
ApprovedIsInstalled ==
  \A k \in Keys : (pending[k] = "approved" /\ state = k) ~> (Paired(k) \/ torn \/ overtaken)

=============================================================================
