----------------------------- MODULE RequestGate -----------------------------
(***************************************************************************)
(* What stands before the FinanceOps endpoints: the configuration, the     *)
(* signature, the rate limit, the checks of the form and its file, and the *)
(* database session of the integration's user.  One server instance, whose *)
(* memory a restart loses.                                                 *)
(*                                                                         *)
(* A signature is the secret it was made with and whether it fits what     *)
(* arrives (method, path, query in any order, body, timestamp).  What is   *)
(* wrong with a request is a set of faults; the answer is that of the      *)
(* first one found.  A request that passes is "handed_on" to the intake.   *)
(***************************************************************************)
EXTENDS Integers, FiniteSets, Sequences

CONSTANTS
  Request,    \* requests FinanceOps sends, again and again
  ShapeOf,    \* the shape of each, see Shape
  KeyId, Secret, Missing,
  Configs,    \* configurations of the deployment, see Config
  Window, Lifetime, Margin,   \* of the limiter, of a session
  MaxNow      \* bound on the clock

Fault == {"method", "large", "headers", "multipart", "metadata", "entity",
          "envelope", "content", "hash", "id"}
Shape == [payment : BOOLEAN, status : BOOLEAN, key : KeyId, secret : Secret,
          fits : BOOLEAN, sent : Nat, faults : SUBSET Fault]
Slot == {"current", "next"}
Config == [enabled : BOOLEAN, payments : BOOLEAN, entities : BOOLEAN,
           keyId : [Slot -> KeyId \cup {Missing}],
           secret : [Slot -> Secret \cup {Missing}],
           skew : Nat, limit : Nat, database : BOOLEAN]

ASSUME GateAssumption ==
  /\ ShapeOf \in [Request -> Shape]
  /\ \A c \in Configs : c \in Config
  /\ Missing \notin KeyId /\ Missing \notin Secret
  /\ Window \in Nat /\ Lifetime \in Nat /\ Margin \in Nat /\ MaxNow \in Nat

VARIABLES
  config,    \* the environment the instance reads
  now,       \* its clock
  hits,      \* of the requests each key had admitted, those remembered
  session,   \* when the cached session expires, 0 without one
  waiting,   \* requests that wait for a sign-in under way
  answer,    \* the last answer to each request
  admitted   \* times each key was admitted since the start, all of them;
             \* a hit is a position here, so that two at one time stay two

gateVars == <<config, now, hits, session, waiting, answer, admitted>>

-----------------------------------------------------------------------------
(* The checks *)

\* A slot counts with an id and a long enough secret; "next" needs its own id.
ActiveKey(slot) ==
  /\ config.keyId[slot] # Missing /\ config.secret[slot] # Missing
  /\ slot = "next" =>
       ~(/\ config.secret["current"] # Missing
         /\ config.keyId["current"] = config.keyId["next"])

NotConfigured == (\A s \in Slot : ~ActiveKey(s)) \/ ~config.entities

Precheck(r) ==
  IF r.payment /\ ~config.payments THEN "payment_register_disabled"
  ELSE IF ~config.enabled THEN "integration_disabled"
  ELSE IF NotConfigured THEN "integration_not_configured"
  ELSE IF "method" \in r.faults THEN "method_not_allowed"
  ELSE IF "large" \in r.faults THEN "file_too_large"
  ELSE "none"

\* verifyRequest: one opaque answer for every reason.
Verified(r) ==
  /\ "headers" \notin r.faults
  /\ r.sent >= now - config.skew /\ r.sent <= now + config.skew
  /\ \E s \in Slot : /\ ActiveKey(s) /\ config.keyId[s] = r.key
                     /\ config.secret[s] = r.secret /\ r.fits

BillChecks == <<"multipart", "metadata", "entity", "envelope", "content", "hash">>

FirstFault(faults, checks) ==
  LET found == {i \in DOMAIN checks : checks[i] \in faults}
  IN IF found = {} THEN "none"
     ELSE checks[CHOOSE i \in found : \A j \in found : i <= j]

Refusal(r) ==
  FirstFault(r.faults, IF r.status THEN <<"id">> ELSE BillChecks)

-----------------------------------------------------------------------------
(* The limiter and the session *)

Recent(key) == {i \in hits[key] : admitted[key][i] > now - Window}

\* Mutant of Limited: the budget starts anew with every window.
LimitedByTick(key) ==
  Cardinality({i \in hits[key] : admitted[key][i] \div Window = now \div Window})
    >= config.limit

Limited(key) == Cardinality(Recent(key)) >= config.limit

Cached == session # 0 /\ now < session - Margin

\* Store provider: without credentials, with the cached session, or waiting.
HandOn(q) ==
  IF ~config.database
  THEN /\ answer' = [answer EXCEPT ![q] = "integration_db_not_configured"]
       /\ UNCHANGED waiting
  ELSE IF Cached
  THEN /\ answer' = [answer EXCEPT ![q] = "handed_on"]
       /\ UNCHANGED waiting
  ELSE /\ waiting' = waiting \cup {q}
       /\ UNCHANGED answer

Refuse(q, reason) ==
  /\ answer' = [answer EXCEPT ![q] = reason]
  /\ UNCHANGED waiting

Deliver(q) ==
  LET r == ShapeOf[q]
  IN /\ q \notin waiting
     /\ IF Precheck(r) # "none" \/ ~Verified(r)
        THEN /\ Refuse(q, IF Precheck(r) # "none" THEN Precheck(r) ELSE "unauthorized")
             /\ UNCHANGED <<hits, admitted>>
        ELSE IF Limited(r.key)
        THEN /\ Refuse(q, "rate_limited")
             /\ hits' = [hits EXCEPT ![r.key] = Recent(r.key)]
             /\ UNCHANGED admitted
        ELSE /\ hits' = [hits EXCEPT ![r.key] = Recent(r.key) \cup {Len(admitted[r.key]) + 1}]
             /\ admitted' = [admitted EXCEPT ![r.key] = Append(@, now)]
             /\ IF Refusal(r) # "none" THEN Refuse(q, Refusal(r)) ELSE HandOn(q)
     /\ UNCHANGED <<config, now, session>>

\* One sign-in serves everyone who waits, whether it succeeds or not.
SignIn ==
  /\ waiting # {}
  /\ session' = now + Lifetime
  /\ answer' = [q \in Request |-> IF q \in waiting THEN "handed_on" ELSE answer[q]]
  /\ waiting' = {}
  /\ UNCHANGED <<config, now, hits, admitted>>

SignInFails ==
  /\ waiting # {}
  /\ answer' = [q \in Request |->
       IF q \in waiting THEN "integration_identity_unavailable" ELSE answer[q]]
  /\ waiting' = {}
  /\ UNCHANGED <<config, now, hits, session, admitted>>

ClockTicks ==
  /\ now < MaxNow
  /\ now' = now + 1
  /\ UNCHANGED <<config, hits, session, waiting, answer, admitted>>

NoHits == [k \in KeyId |-> {}]
NothingAdmitted == [k \in KeyId |-> <<>>]

\* A new instance, perhaps with other settings (a key rotated, a flag set).
Restart ==
  /\ config' \in Configs
  /\ hits' = NoHits /\ admitted' = NothingAdmitted
  /\ session' = 0 /\ waiting' = {}
  /\ answer' = [q \in Request |-> IF q \in waiting THEN "no_answer" ELSE answer[q]]
  /\ UNCHANGED now

GateInit ==
  /\ config \in Configs
  /\ now = 0
  /\ hits = NoHits /\ admitted = NothingAdmitted
  /\ session = 0 /\ waiting = {}
  /\ answer = [q \in Request |-> "none"]

GateNext ==
  \/ \E q \in Request : Deliver(q)
  \/ SignIn \/ SignInFails \/ ClockTicks \/ Restart

GateSpec == GateInit /\ [][GateNext]_gateVars

-----------------------------------------------------------------------------
(* Properties *)

GateTypeOK ==
  /\ config \in Configs
  /\ now \in 0..MaxNow
  /\ admitted \in [KeyId -> Seq(0..MaxNow)]
  /\ DOMAIN hits = KeyId /\ \A k \in KeyId : hits[k] \subseteq DOMAIN admitted[k]
  /\ session \in 0..(MaxNow + Lifetime)
  /\ waiting \subseteq Request
  /\ DOMAIN answer = Request

\* No window of time, wherever it starts, holds more admitted requests of a
\* key than the limit, though the limiter forgets the times that left its own
\* window.
WithinBudget ==
  \A k \in KeyId, from \in 0..MaxNow :
    Cardinality({i \in DOMAIN admitted[k] :
                   from <= admitted[k][i] /\ admitted[k][i] < from + Window})
      <= config.limit
=============================================================================
