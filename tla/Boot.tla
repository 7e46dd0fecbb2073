-------------------------------- MODULE Boot --------------------------------
(***************************************************************************)
(* How a service comes up: scripts/docker_start.sh (the bounded database   *)
(* probe of scripts/pre_start.py, then the server), the validators of      *)
(* fastapi_m8/config.py, the factories of _deps.py, _internal_auth.py and  *)
(* _events.py that build the clients, the compatibility gate of _compat.py *)
(* they pass, and the credential check of _app.py at startup.              *)
(*                                                                         *)
(* A setting is what the validators and factories tell apart: whether it   *)
(* is set; stateful stands for a stateful token mode in the consumer role. *)
(* The import of the host's module inside the probe's process runs the     *)
(* same steps as the server's and is not repeated.                         *)
(***************************************************************************)
EXTENDS Naturals

CONSTANT MaxTries  \* MAX_TRIES of pre_start.py

ASSUME BootAssumption == MaxTries \in Nat \ {0}

VARIABLES
    conf,     \* the settings
    sdk,      \* the installed auth-sdk-m8 against its row of COMPAT_MATRIX
    phase,    \* how far the service has come
    tries,    \* attempts of _probe()
    checked,  \* _COMPAT_STATE["checked"]
    built     \* the clients the host has built

vars == <<conf, sdk, phase, tries, checked, built>>

\* An operational credential is unset, of its own, or PRIVATE_API_SECRET again.
Credential == {"none", "own", "reused"}

Settings == [environment : {"local", "production"}, strictProduction : BOOLEAN,
             stateful : BOOLEAN, introspectionUrl : BOOLEAN,
             clientId : BOOLEAN, secret : BOOLEAN, exchange : BOOLEAN,
             apiKeys : BOOLEAN, apiKeyUrl : BOOLEAN, knownSchema : BOOLEAN,
             health : Credential, metrics : Credential]

Clients == {"revocation", "apiKey", "events"}

TypeOK ==
    /\ conf \in Settings
    /\ sdk \in {"inRange", "outOfRange", "noRow", "missing"}
    /\ phase \in {"probing", "importing", "wiring", "starting", "serving", "dead"}
    /\ tries \in 0..MaxTries
    /\ checked \in BOOLEAN
    /\ built \subseteq Clients

Init ==
    /\ conf \in Settings
    /\ sdk \in {"inRange", "outOfRange", "noRow", "missing"}
    /\ phase = "probing"
    /\ tries = 0
    /\ checked = FALSE
    /\ built = {}

-----------------------------------------------------------------------------
(* pre_start.py                                                            *)

\* Variant: a failed attempt is not counted.
Attempt_NotCounted == tries

Attempt == tries + 1

GivesUp == Attempt = MaxTries

\* The last failed attempt ends the script, and set -e the container.
ProbeFails ==
    /\ phase = "probing"
    /\ tries' = Attempt
    /\ phase' = IF GivesUp THEN "dead" ELSE "probing"
    /\ UNCHANGED <<conf, sdk, checked, built>>

\* The database answers, or the host has no engine to probe with.
ProbePasses ==
    /\ phase = "probing"
    /\ phase' = "importing"
    /\ UNCHANGED <<conf, sdk, tries, checked, built>>

-----------------------------------------------------------------------------
(* ConsumerServiceSettings                                                 *)

\* ConsumerAuthMixin: a stateful consumer has a JTI-status endpoint.
SdkAccepts == conf.stateful => conf.introspectionUrl

\* _validate_api_key_introspection().
ApiKeyGroupValid ==
    conf.apiKeys =>
        /\ conf.apiKeyUrl \/ conf.introspectionUrl
        /\ conf.clientId
        /\ conf.secret
        /\ conf.knownSchema

\* Variant: STRICT_PRODUCTION_MODE is not looked at.
IsProduction_EnvironmentOnly == conf.environment = "production"

IsProduction == conf.environment = "production" \/ conf.strictProduction

\* Variant: the identity's bootstrap secret may be missing.
PerConsumerCoherent_NoSecret == conf.exchange => conf.clientId

PerConsumerCoherent ==
    /\ conf.exchange => conf.clientId
    /\ conf.clientId => conf.secret

\* _validate_consumer_private_auth().
PrivateAuthValid ==
    /\ PerConsumerCoherent
    /\ IsProduction /\ conf.introspectionUrl => conf.clientId

Accepted == SdkAccepts /\ ApiKeyGroupValid /\ PrivateAuthValid

\* Settings that are not accepted end the import of the host's module.
Construct ==
    /\ phase = "importing"
    /\ phase' = IF Accepted THEN "wiring" ELSE "dead"
    /\ UNCHANGED <<conf, sdk, tries, checked, built>>

-----------------------------------------------------------------------------
(* The factories, called by the host in the order and as often as it likes *)

\* What build_internal_auth() builds.
Mode == CASE ~ conf.clientId -> "legacy"
          [] conf.clientId /\ conf.exchange -> "service_token"
          [] OTHER -> "bootstrap"

\* _assert_compat(): the versions are compared until they were found to fit.
Compatible == checked \/ sdk = "inRange"

\* Variant: the check is recorded before the versions are compared.
CheckedAfterReject_Recorded == TRUE

CheckedAfterReject == checked

\* The gate raises for either factory; a host may catch that and go on.
GateRejects ==
    /\ phase = "wiring" /\ ~ Compatible
    /\ phase' \in {"wiring", "dead"}
    /\ checked' = CheckedAfterReject
    /\ UNCHANGED <<conf, sdk, tries, built>>

BuildAuthDeps ==
    /\ phase = "wiring" /\ Compatible
    /\ checked' = TRUE
    /\ built' = built \cup {k \in {"revocation", "apiKey"} :
                              IF k = "apiKey" THEN conf.apiKeys ELSE conf.stateful}
    /\ UNCHANGED <<conf, sdk, phase, tries>>

BuildEventStream ==
    /\ phase = "wiring" /\ conf.introspectionUrl
    /\ built' = built \cup {"events"}
    /\ UNCHANGED <<conf, sdk, phase, tries, checked>>

\* ValueError: there is nothing to derive the stream's URL from.
NoEventStream ==
    /\ phase = "wiring" /\ ~ conf.introspectionUrl
    /\ phase' \in {"wiring", "dead"}
    /\ UNCHANGED <<conf, sdk, tries, checked, built>>

CreateApp ==
    /\ phase = "wiring" /\ Compatible
    /\ checked' = TRUE
    /\ phase' = "starting"
    /\ UNCHANGED <<conf, sdk, tries, built>>

-----------------------------------------------------------------------------
(* The config-health validator                                             *)

Reuses == conf.secret /\ "reused" \in {conf.health, conf.metrics}

StartupPasses ==
    /\ phase = "starting" /\ ~ Reuses
    /\ phase' = "serving"
    /\ UNCHANGED <<conf, sdk, tries, checked, built>>

\* The reuse check, the SDK's check_config_health() or a host's validator raises.
StartupFails ==
    /\ phase = "starting"
    /\ phase' = "dead"
    /\ UNCHANGED <<conf, sdk, tries, checked, built>>

-----------------------------------------------------------------------------
Next ==
    \/ ProbeFails \/ ProbePasses \/ Construct
    \/ GateRejects \/ BuildAuthDeps \/ BuildEventStream \/ NoEventStream \/ CreateApp
    \/ StartupPasses \/ StartupFails

Spec == Init /\ [][Next]_vars

-----------------------------------------------------------------------------
(* Properties                                                              *)

\* Nothing is built to authenticate with, and no app serves, beside an SDK out
\* of the declared range, even if the host catches the gate's error and calls
\* the factories again.
GateHolds ==
    phase = "serving" \/ built \cap {"revocation", "apiKey"} # {} => sdk = "inRange"

\* config.py:321: under production or strict mode no client presents the single
\* shared secret, whichever factory built it: three validators in two packages
\* and the factories' own conditions have to fit together.
NoLegacyInProduction ==
    built # {} /\ (conf.environment = "production" \/ conf.strictProduction) =>
        Mode # "legacy"

\* Every client has the URL of its own calls to derive, and a secret to present
\* wherever it has an identity.
ClientsConfigured ==
    /\ built \cap {"revocation", "events"} # {} => conf.introspectionUrl
    /\ "apiKey" \in built => conf.apiKeyUrl \/ conf.introspectionUrl
    /\ built # {} /\ Mode # "legacy" => conf.secret

\* An attempt that does not pass fails in the end. That is the driver's and the
\* database's doing: neither the engine nor _probe() sets a timeout, and a database
\* that accepts the connection and never answers may hold one attempt for ever.
AttemptsEnd == WF_vars(ProbeFails)

\* README.md:1308: however often attempts fail, the container starts or exits, as
\* long as each of them ends; a retry is counted like the attempt before it.
ProbingEnds == AttemptsEnd => (phase = "probing" ~> phase # "probing")

-----------------------------------------------------------------------------
(* Statement of the documentation                                          *)

\* config.py:268: with anything the API-key client needs missing the service
\* stops at boot; it also needs an exchange endpoint when it exchanges.
StopsAtBoot ==
    phase = "serving" /\ "apiKey" \in built =>
        (Mode = "service_token" => conf.introspectionUrl)

=============================================================================
