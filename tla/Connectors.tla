----------------------------- MODULE Connectors -----------------------------
(***************************************************************************)
(* Connector profiles and the secrets their fields refer to                *)
(* (connectors/service.py, secrets/).  The rows are transactional; the     *)
(* secrets are rows too (secrets/database.py), or Vault documents that no  *)
(* rollback restores (secrets/vault.py).  One connector and one profile    *)
(* name of one tenant; a secret is the field of a configuration id.        *)
(***************************************************************************)
EXTENDS Naturals, FiniteSets

CONSTANTS
    Fields,         \* secret fields of the connector's template
    ProfileCalls,   \* concurrent requests
    MaxProfile,     \* bound: configuration ids
    MaxOutside      \* bound: keys the Secrets API touches

ASSUME ConnectorsAssumption == MaxProfile \in Nat /\ MaxOutside \in Nat

VARIABLES
    backend,        \* M8FLOW_SECRET_BACKEND_KIND
    profile,        \* the committed row of the name, id 0 for none
    nextProfile,    \* the sequence of configuration ids
    secrets,        \* secret_ref keys stored: <<configuration id, field>>
    profileCall,    \* requests under way
    \* history: keys the Secrets API touched; ids left with secrets nobody refers to,
    \* and with refs whose secret may be gone
    outside, leftover, halfCleared

connectorsHistory == <<outside, leftover, halfCleared>>
connectorsVars == <<backend, profile, nextProfile, secrets, profileCall, connectorsHistory>>

Ids == 0..MaxProfile
Keys == (1..MaxProfile) \X Fields
NoProfile == [id |-> 0, active |-> FALSE, refs |-> {}]
NoProfileCall == [pc |-> "idle", op |-> "none", id |-> 0, refs |-> {}, toSet |-> {},
                  toClear |-> {}, written |-> {}, cleared |-> {}]

ConnectorsTypeOK ==
    /\ backend \in {"database", "vault"}
    /\ profile \in [id : Ids, active : BOOLEAN, refs : SUBSET Fields]
    /\ nextProfile \in Ids
    /\ secrets \subseteq Keys /\ outside \subseteq Keys
    /\ leftover \subseteq Ids /\ halfCleared \subseteq Ids
    /\ profileCall \in [ProfileCalls -> [
            pc : {"idle", "insert", "secrets", "compensate", "commit"},
            op : {"none", "create", "update", "delete"},
            id : Ids, refs : SUBSET Fields, toSet : SUBSET Fields, toClear : SUBSET Fields,
            written : SUBSET Fields, cleared : SUBSET Fields]]

ConnectorsInit ==
    /\ backend \in {"database", "vault"}
    /\ profile = NoProfile /\ nextProfile = 0
    /\ secrets = {}
    /\ profileCall = [c \in ProfileCalls |-> NoProfileCall]
    /\ outside = {} /\ leftover = {} /\ halfCleared = {}

Doing(c, op) == profileCall[c].op = op /\ profileCall[c].pc = "secrets"
OnProfile(i) == {c \in ProfileCalls : profileCall[c].pc # "idle" /\ profileCall[c].id = i}
Proceed(c, frame) == profileCall' = [profileCall EXCEPT ![c] = frame]
Leave(c) == Proceed(c, NoProfileCall)

\* What a request sees of the secrets: with the database, its own writes too
Sees(c) ==
    LET f == profileCall[c] IN
    IF backend = "vault" THEN secrets
    ELSE (secrets \cup ({f.id} \X f.written)) \ ({f.id} \X f.cleared)

\* A Vault document changes at once, a row with the request's transaction.
AddSecret(c, n) ==
    /\ secrets' = IF backend = "vault" THEN secrets \cup {<<profileCall[c].id, n>>} ELSE secrets
    /\ Proceed(c, [profileCall[c] EXCEPT !.toSet = @ \ {n}, !.refs = @ \cup {n},
                        !.written = @ \cup {n}, !.cleared = @ \ {n}])

\* Two requests that change one profile excuse what becomes of its secrets.
StartOn(c, op, toSet, toClear) ==
    /\ profileCall[c].pc = "idle" /\ profile.id # 0
    /\ Proceed(c, [NoProfileCall EXCEPT !.pc = "secrets", !.op = op, !.id = profile.id,
                        !.refs = profile.refs, !.toSet = toSet, !.toClear = toClear])
    /\ IF OnProfile(profile.id) = {} THEN UNCHANGED <<leftover, halfCleared>>
       ELSE leftover' = leftover \cup {profile.id} /\ halfCleared' = halfCleared \cup {profile.id}
    /\ UNCHANGED <<backend, profile, nextProfile, secrets, outside>>

(***************************************************************************)
(* create_profile                                                          *)
(***************************************************************************)

StartCreateProfile(c) ==
    /\ profileCall[c].pc = "idle" /\ profile.id = 0
    /\ \E fs \in SUBSET Fields :
        Proceed(c, [NoProfileCall EXCEPT !.pc = "insert", !.op = "create", !.toSet = fs])
    /\ UNCHANGED <<backend, profile, nextProfile, secrets, connectorsHistory>>

\* The flush waits for another insert of the name to commit or roll back; the loser is
\* refused (the id it burns is left out).
InsertProfile(c) ==
    /\ profileCall[c].pc = "insert"
    /\ \A d \in ProfileCalls : profileCall[d].op = "create" => profileCall[d].id = 0
    /\ \/ profile.id # 0 /\ Leave(c) /\ UNCHANGED nextProfile
       \/ /\ profile.id = 0 /\ nextProfile < MaxProfile
          /\ nextProfile' = nextProfile + 1
          /\ Proceed(c, [profileCall[c] EXCEPT !.pc = "secrets", !.id = nextProfile'])
    /\ UNCHANGED <<backend, profile, secrets, connectorsHistory>>

\* _write_secrets: one field after another, until one cannot be added
WriteSecret(c) ==
    /\ Doing(c, "create")
    /\ \E n \in profileCall[c].toSet :
        \/ /\ <<profileCall[c].id, n>> \notin Sees(c)
           /\ AddSecret(c, n)
        \/ /\ Proceed(c, [profileCall[c] EXCEPT !.pc = "compensate"])
           /\ UNCHANGED secrets
    /\ UNCHANGED <<backend, profile, nextProfile, connectorsHistory>>

\* (mutant of ToCompensate: what was written is left to the rollback)
NothingToCompensate(f) == {}
\* Secrets to take back when a later one could not be written
ToCompensate(f) == {f.id} \X f.written

\* Each delete is tried; one that fails is logged.
Compensate(c) ==
    LET f == profileCall[c] IN
    /\ f.pc = "compensate"
    /\ \E done \in IF backend = "vault" THEN SUBSET ToCompensate(f) ELSE {{}} :
        /\ secrets' = secrets \ done
        /\ leftover' = IF done = ToCompensate(f) THEN leftover ELSE leftover \cup {f.id}
    /\ Leave(c)
    /\ UNCHANGED <<backend, profile, nextProfile, outside, halfCleared>>

(***************************************************************************)
(* update_profile, deactivate_profile                                      *)
(***************************************************************************)

StartUpdateProfile(c) ==
    \E toSet, toClear \in SUBSET Fields :
        /\ toSet \cap toClear = {} /\ toSet \cup toClear # {}
        /\ StartOn(c, "update", toSet, toClear)

\* is_active alone: one statement
SetActive(active) ==
    /\ profile.id # 0
    /\ profile' = [profile EXCEPT !.active = active]
    /\ UNCHANGED <<backend, nextProfile, secrets, profileCall, connectorsHistory>>

\* "Writes before deletes"
ClearsReady(f) == f.toSet = {}

\* The ref has its secret, which update_secret overwrites
Known(c, n) == n \in profileCall[c].refs /\ <<profileCall[c].id, n>> \in Sees(c)

SetField(c, n) ==
    /\ Doing(c, "update") /\ n \in profileCall[c].toSet
    /\ IF Known(c, n)
       THEN Proceed(c, [profileCall[c] EXCEPT !.toSet = @ \ {n}]) /\ UNCHANGED secrets
       ELSE <<profileCall[c].id, n>> \notin Sees(c) /\ AddSecret(c, n)
    /\ UNCHANGED <<backend, profile, nextProfile, connectorsHistory>>

\* A secret that no ref names is stored under the key: add_secret answers 409.
SetFieldRefused(c, n) ==
    LET f == profileCall[c] IN
    /\ Doing(c, "update") /\ n \in f.toSet
    /\ n \notin f.refs /\ <<f.id, n>> \in Sees(c)
    /\ leftover' = IF f.written = {} THEN leftover ELSE leftover \cup {f.id}
    /\ Leave(c)
    /\ UNCHANGED <<backend, profile, nextProfile, secrets, outside, halfCleared>>

\* A secret already gone is skipped.
ClearField(c, n) ==
    LET f == profileCall[c]
        known == n \in f.refs IN
    /\ Doing(c, "update") /\ n \in f.toClear /\ ClearsReady(f)
    /\ secrets' = IF backend = "vault" /\ known THEN secrets \ {<<f.id, n>>} ELSE secrets
    /\ Proceed(c, [f EXCEPT !.toClear = @ \ {n}, !.refs = @ \ {n}, !.written = @ \ {n},
                            !.cleared = IF known THEN @ \cup {n} ELSE @])
    /\ UNCHANGED <<backend, profile, nextProfile, connectorsHistory>>

SecretsDone(c) ==
    LET f == profileCall[c] IN
    /\ f.pc = "secrets" /\ f.op \in {"create", "update"}
    /\ f.toSet = {} /\ f.toClear = {}
    /\ Proceed(c, [f EXCEPT !.pc = "commit"])
    /\ UNCHANGED <<backend, profile, nextProfile, secrets, connectorsHistory>>

(***************************************************************************)
(* delete_profile                                                          *)
(***************************************************************************)

StartDeleteProfile(c) == StartOn(c, "delete", {}, profile.refs)

\* The row's delete is flushed; a secret that cannot be removed is logged and stays.
DeleteSecrets(c) ==
    LET f == profileCall[c] IN
    /\ Doing(c, "delete")
    /\ \E gone \in IF backend = "vault" THEN SUBSET f.toClear ELSE {f.toClear} :
        /\ secrets' = IF backend = "vault" THEN secrets \ ({f.id} \X gone) ELSE secrets
        /\ Proceed(c, [f EXCEPT !.pc = "commit", !.cleared = gone])
        /\ leftover' = IF gone = f.toClear THEN leftover ELSE leftover \cup {f.id}
    /\ UNCHANGED <<backend, profile, nextProfile, outside, halfCleared>>

(***************************************************************************)
(* The Secrets API (routes/v1.py), and the end of a request                *)
(***************************************************************************)

SecretsApi(key) ==
    /\ secrets' \in {secrets \cup {key}, secrets \ {key}}
    /\ outside' = outside \cup {key} /\ Cardinality(outside') <= MaxOutside
    /\ UNCHANGED <<backend, profile, nextProfile, profileCall, leftover, halfCleared>>

\* An update or a delete of a row that is gone matches nothing: see Abandon.
CommitProfile(c) ==
    LET f == profileCall[c] IN
    /\ f.pc = "commit" /\ profile.id = IF f.op = "create" THEN 0 ELSE f.id
    /\ profile' = IF f.op = "delete" THEN NoProfile
                  ELSE [id |-> f.id, active |-> f.op = "create" \/ profile.active, refs |-> f.refs]
    /\ secrets' = Sees(c)
    /\ Leave(c)
    /\ UNCHANGED <<backend, nextProfile, connectorsHistory>>

\* Vault fails, the commit fails or the process dies: the transaction rolls back, the
\* documents written or removed so far stay as they are.
Abandon(c) ==
    LET f == profileCall[c] IN
    /\ f.pc # "idle"
    /\ leftover' = IF f.written # {} THEN leftover \cup {f.id} ELSE leftover
    /\ halfCleared' = IF f.cleared # {} /\ f.toSet = {} THEN halfCleared \cup {f.id}
                      ELSE halfCleared
    /\ Leave(c)
    /\ UNCHANGED <<backend, profile, nextProfile, secrets, outside>>

ConnectorsNext ==
    \/ \E c \in ProfileCalls :
        \/ StartCreateProfile(c) \/ InsertProfile(c) \/ WriteSecret(c) \/ Compensate(c)
        \/ StartUpdateProfile(c) \/ SecretsDone(c)
        \/ \E n \in Fields : SetField(c, n) \/ SetFieldRefused(c, n) \/ ClearField(c, n)
        \/ StartDeleteProfile(c) \/ DeleteSecrets(c)
        \/ CommitProfile(c) \/ Abandon(c)
    \/ \E active \in BOOLEAN : SetActive(active)
    \/ \E key \in {k \in Keys : k[1] <= nextProfile} : SecretsApi(key)

ConnectorsSpec == ConnectorsInit /\ [][ConnectorsNext]_connectorsVars

(***************************************************************************)
(* Properties                                                              *)
(***************************************************************************)

\* Secrets and profile match.
\* No field is "missing its stored value" at run time when only the profile's own requests,
\* one at a time, handled its secret and each removed secrets completely or not at all:
\* "writes before deletes: a failed write then leaves nothing removed" (_update_secrets).
\* And no secret outlives the profile it was stored for: a stored key is a ref of the
\* profile or a request is at work on it, unless a request was cut short after it wrote.
SecretsMatchProfile ==
    /\ profile.id # 0 /\ profile.id \notin halfCleared =>
        \A n \in profile.refs :
            \/ <<profile.id, n>> \in secrets \cup outside
            \/ \E c \in OnProfile(profile.id) : n \in profileCall[c].cleared
    /\ \A key \in secrets \ outside :
        \/ key[1] \in leftover
        \/ key[1] = profile.id /\ key[2] \in profile.refs
        \/ OnProfile(key[1]) # {}
=============================================================================
