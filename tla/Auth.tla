------------------------------- MODULE Auth -------------------------------
(***************************************************************************)
(* Auth: requests that carry a signature, checked against the api_keys     *)
(* table while keys are created, rotated, revoked and run out.             *)
(* validateSignatureMulti reads the table twice, in two statements: first  *)
(* the accepted secrets, then either what to tell a client that has none,  *)
(* or whether to announce a new version.  Either statement may fail; the   *)
(* error is answered like an empty result.                                 *)
(*                                                                         *)
(* A request without the headers of a signature is let through as it is,   *)
(* and one with some of them is refused, neither reading the table.  A     *)
(* signature matches exactly the secret it was made with.                  *)
(***************************************************************************)
EXTENDS ApiKeys

CONSTANT Request   \* requests, each made at most once

VARIABLE request   \* each request: its next step or answer, what it was signed
                   \* with, and what it has read

authVars == <<vars, request>>

Unknown == 0       \* signed with a secret no version ever had

Header == {"appKey", "timestamp", "nonce", "signature"}

KeylessStep == {"idle", "unauthenticated", "refused"}

Checking == {"secrets", "expiredInfo", "hasRotating"}

Answer == {"accepted", "mismatch", "expired", "invalid"}

CountedFromZero(k) == {n - 1 : n \in {m \in Version : Accepted(k, m)}}
                                         \* mutant: versions are array indices

AcceptedBy(k) == {n \in Version : Accepted(k, n)}

-----------------------------------------------------------------------------
AuthInit ==
  /\ Init
  /\ request = [r \in Request |-> [step |-> "idle"]]

(***************************************************************************)
(* A request that is answered without a look at the keys, by the headers   *)
(* it has: the nonce alone does not make it a signed one.  One that has    *)
(* all of them comes here with a timestamp that is no number.              *)
(***************************************************************************)
ArriveUnsigned(r, headers) ==
  /\ request[r].step = "idle"
  /\ request' = [request EXCEPT ![r] =
       [step |-> IF headers \subseteq {"nonce"} THEN "unauthenticated" ELSE "refused"]]
  /\ UNCHANGED vars

(***************************************************************************)
(* A signed request.                                                       *)
(* always, ever: the secret is accepted in every, in some state since the  *)
(* request came.  late: it came with a key already retired by a rotation.  *)
(* blind: a statement failed.                                              *)
(***************************************************************************)
Arrive(r, k, n) ==
  /\ request[r].step = "idle"
  /\ n # Unknown => Exists(k, n)
  /\ LET good == n # Unknown /\ Accepted(k, n) IN
     request' = [request EXCEPT ![r] =
       [step |-> "secrets", app |-> k, version |-> n, secrets |-> {}, announced |-> FALSE,
        always |-> good, ever |-> good,
        late |-> n # Unknown /\ HasStatus(k, n, "ROTATING"), blind |-> FALSE]]
  /\ UNCHANGED vars

(* GetActiveSecrets.                                                       *)
ReadSecrets(r) ==
  /\ request[r].step = "secrets"
  /\ \E fails \in BOOLEAN :
       LET secrets == IF fails THEN {} ELSE AcceptedBy(request[r].app) IN
       request' = [request EXCEPT ![r].secrets = secrets,
                                  ![r].step = IF secrets = {} THEN "expiredInfo"
                                              ELSE "hasRotating",
                                  ![r].blind = fails]
  /\ UNCHANGED vars

(* GetLatestExpiredInfo; no row ever has the status EXPIRED.               *)
RanOut(k) == \E n \in Version : HasStatus(k, n, "ROTATING") /\ ~Accepted(k, n)

ReadExpiredInfo(r) ==
  /\ request[r].step = "expiredInfo"
  /\ \/ /\ RanOut(request[r].app)
        /\ request' = [request EXCEPT ![r].step = "expired"]
     \/ request' = [request EXCEPT ![r].step = "invalid"]
  /\ UNCHANGED vars

LatestOnly(q) == q.version # Unknown /\ \A n \in q.secrets : n <= q.version
                                         \* mutant: one secret is compared
Matches(q) == q.version \in q.secrets

(* mutant: only retired keys without an expiry are counted.                *)
NothingRotates(k) ==
  \E n \in Version : HasStatus(k, n, "ROTATING") /\ keys[<<k, n>>].expire = "never"

(* HasRotatingKey.                                                         *)
HasRotatingKey(k) == \E n \in Version : HasStatus(k, n, "ROTATING") /\ Accepted(k, n)

(* The announcement, then the comparison with every secret read before.    *)
ReadRotating(r) ==
  /\ request[r].step = "hasRotating"
  /\ \E fails \in BOOLEAN :
       request' = [request EXCEPT ![r].announced = ~fails /\ HasRotatingKey(request[r].app),
                                  ![r].step = IF Matches(request[r]) THEN "accepted"
                                              ELSE "mismatch",
                                  ![r].blind = @ \/ fails]
  /\ UNCHANGED vars

Check(r) ==
  \/ \E headers \in SUBSET Header : ArriveUnsigned(r, headers)
  \/ \E k \in AppKey, n \in Version \cup {Unknown} : Arrive(r, k, n)
  \/ ReadSecrets(r) \/ ReadExpiredInfo(r) \/ ReadRotating(r)

(* A step of the key service, seen by the requests that are being checked. *)
Seen(q) ==
  LET good == \E k \in AppKey, n \in Version :
                q.app = k /\ q.version = n /\ Accepted(k, n)'
  IN
  [q EXCEPT !.always = @ /\ good, !.ever = @ \/ good]

KeysChange ==
  /\ Next
  /\ request' = [r \in Request |-> IF request[r].step \in Checking
                                   THEN Seen(request[r]) ELSE request[r]]

AuthNext == KeysChange \/ \E r \in Request : Check(r)

AuthSpec == AuthInit /\ [][AuthNext]_authVars

-----------------------------------------------------------------------------
(* Every request being checked or answered has its type.                   *)
RequestTypeOK ==
  request \in [Request -> [step : KeylessStep] \cup
    [step : Checking \cup Answer, app : AppKey, version : Version \cup {Unknown},
     secrets : SUBSET Version, announced : BOOLEAN, always : BOOLEAN, ever : BOOLEAN,
     late : BOOLEAN, blind : BOOLEAN]]

(***************************************************************************)
(* Whatever happens to the keys between the two statements, a request is   *)
(* let in only if its secret was accepted at some moment of it, and turned *)
(* away only if it was not all the time, or a statement failed.            *)
(***************************************************************************)
AnswersAreTrue ==
  \A r \in Request :
    /\ request[r].step = "accepted" => request[r].ever
    /\ request[r].step \in {"mismatch", "expired", "invalid"} =>
         ~request[r].always \/ request[r].blind

(***************************************************************************)
(* docs/API_KEY_ROTATION_RUNBOOK.md: a client let in during a rotation is  *)
(* told so.  One that came with a retired key goes without the notice only *)
(* if that key ended during the request, or the statement failed.          *)
(***************************************************************************)
RotationIsAnnounced ==
  \A r \in Request :
    request[r].step = "accepted" /\ request[r].late =>
      request[r].announced \/ ~request[r].always \/ request[r].blind
=============================================================================
