----------------------------- MODULE BootProofs -----------------------------
(***************************************************************************)
(* Proofs about Boot for every combination of settings, every installed    *)
(* SDK, any number of probe attempts and any order of the host's calls.    *)
(***************************************************************************)
EXTENDS Boot, TLAPS

-----------------------------------------------------------------------------
(* The inductive invariant *)

\* Past the import the settings are accepted; before it nothing is built.
AcceptedInv ==
    /\ phase \in {"wiring", "starting", "serving"} => Accepted
    /\ phase \in {"probing", "importing"} => built = {}
    /\ built # {} => Accepted

\* The gate remembers only a comparison that passed, and whoever needs it has it.
GateInv ==
    /\ checked => sdk = "inRange"
    /\ phase \in {"starting", "serving"} => checked
    /\ built \cap {"revocation", "apiKey"} # {} => checked

\* A client is only built where the settings ask for it.
BuiltInv ==
    /\ "revocation" \in built => conf.stateful
    /\ "apiKey" \in built => conf.apiKeys
    /\ "events" \in built => conf.introspectionUrl

\* An attempt is only made while one is left.
TriesInv == phase = "probing" => tries < MaxTries

BootInv == TypeOK /\ TriesInv /\ AcceptedInv /\ GateInv /\ BuiltInv

-----------------------------------------------------------------------------
(* Lemmas *)

\* A step that only moves the phase keeps what is said of clients and gate.
LEMMA PhaseStep ==
    ASSUME BootInv, UNCHANGED <<conf, sdk, checked, built>>,
           tries' \in 0..MaxTries,
           phase' = "probing" => tries' < MaxTries,
           phase' \in {"probing", "importing", "wiring", "starting", "serving", "dead"},
           phase' \in {"wiring", "starting", "serving"} => Accepted,
           phase' \in {"probing", "importing"} => built = {},
           phase' \in {"starting", "serving"} => checked
    PROVE  BootInv'
<1>1. TypeOK'
  BY DEF BootInv, TypeOK
<1>2. Accepted' = Accepted
  BY DEF Accepted, SdkAccepts, ApiKeyGroupValid, PrivateAuthValid,
         PerConsumerCoherent, IsProduction
<1>3. AcceptedInv'
  BY <1>2 DEF BootInv, AcceptedInv
<1>4. GateInv' /\ BuiltInv'
  BY DEF BootInv, GateInv, BuiltInv
<1>5. TriesInv'
  BY DEF TriesInv
<1>6. QED
  BY <1>1, <1>3, <1>4, <1>5 DEF BootInv

\* A factory call changes the gate's memory and the clients, and perhaps leaves
\* the wiring; the settings stay.
LEMMA FactoryStep ==
    ASSUME BootInv, phase = "wiring", UNCHANGED <<conf, sdk, tries>>,
           phase' \in {"wiring", "starting", "dead"},
           phase' = "starting" => checked',
           checked' \in BOOLEAN,
           checked' => sdk = "inRange",
           checked => checked',
           built' \subseteq Clients,
           BuiltInv',
           built' \cap {"revocation", "apiKey"} # {} => checked'
    PROVE  BootInv'
<1>1. TypeOK'
  BY DEF BootInv, TypeOK
<1>2. Accepted
  BY DEF BootInv, AcceptedInv
<1>3. Accepted'
  BY <1>2 DEF Accepted, SdkAccepts, ApiKeyGroupValid, PrivateAuthValid,
              PerConsumerCoherent, IsProduction
<1>4. AcceptedInv'
  BY <1>3 DEF AcceptedInv
<1>5. GateInv'
  BY DEF GateInv
<1>6. TriesInv'
  BY DEF TriesInv
<1>7. QED
  BY <1>1, <1>4, <1>5, <1>6 DEF BootInv

-----------------------------------------------------------------------------
(* The steps *)

LEMMA BootInit == Init => BootInv
<1> SUFFICES ASSUME Init PROVE BootInv
  OBVIOUS
<1>1. 0 \in 0..MaxTries
  BY BootAssumption
<1>2. TypeOK
  BY <1>1 DEF Init, TypeOK
<1>3. TriesInv /\ AcceptedInv /\ GateInv /\ BuiltInv
  BY BootAssumption DEF Init, TriesInv, AcceptedInv, GateInv, BuiltInv
<1>4. QED
  BY <1>2, <1>3 DEF BootInv

LEMMA BootStep == BootInv /\ [Next]_vars => BootInv'
<1> SUFFICES ASSUME BootInv, [Next]_vars PROVE BootInv'
  OBVIOUS
<1>0. /\ tries \in 0..MaxTries /\ checked \in BOOLEAN /\ built \subseteq Clients
      /\ MaxTries \in Nat
  BY BootAssumption DEF BootInv, TypeOK
<1>1. CASE ProbeFails
  <2>1. tries < MaxTries
    BY <1>1 DEF ProbeFails, BootInv, TriesInv
  <2>2. tries' \in 0..MaxTries /\ (phase' = "probing" => tries' < MaxTries)
    BY <1>0, <1>1, <2>1 DEF ProbeFails, Attempt, GivesUp
  <2>3. phase' \in {"probing", "dead"} /\ built = {}
    BY <1>1 DEF ProbeFails, BootInv, AcceptedInv
  <2>4. QED
    BY <1>1, <2>2, <2>3, PhaseStep DEF ProbeFails
<1>2. CASE ProbePasses
  BY <1>0, <1>2, PhaseStep DEF ProbePasses, BootInv, AcceptedInv
<1>3. CASE Construct
  BY <1>0, <1>3, PhaseStep DEF Construct
<1>4. CASE GateRejects
  <2>1. BuiltInv'
    BY <1>4 DEF GateRejects, BootInv, BuiltInv
  <2>2. QED
    BY <1>0, <1>4, <2>1, FactoryStep
    DEF GateRejects, CheckedAfterReject, BootInv, GateInv
<1>5. CASE BuildAuthDeps
  <2>1. BuiltInv' /\ built' \subseteq Clients
    BY <1>0, <1>5 DEF BuildAuthDeps, BootInv, BuiltInv, Clients
  <2>2. sdk = "inRange"
    BY <1>5 DEF BuildAuthDeps, Compatible, BootInv, GateInv
  <2>3. QED
    BY <1>5, <2>1, <2>2, FactoryStep DEF BuildAuthDeps
<1>6. CASE BuildEventStream
  <2>1. BuiltInv' /\ built' \subseteq Clients
    BY <1>0, <1>6 DEF BuildEventStream, BootInv, BuiltInv, Clients
  <2>2. built' \cap {"revocation", "apiKey"} # {} => checked'
    BY <1>6 DEF BuildEventStream, BootInv, GateInv
  <2>3. QED
    BY <1>0, <1>6, <2>1, <2>2, FactoryStep DEF BuildEventStream, BootInv, GateInv
<1>7. CASE NoEventStream
  <2>1. BuiltInv'
    BY <1>7 DEF NoEventStream, BootInv, BuiltInv
  <2>2. QED
    BY <1>0, <1>7, <2>1, FactoryStep DEF NoEventStream, BootInv, GateInv
<1>8. CASE CreateApp
  <2>1. BuiltInv'
    BY <1>8 DEF CreateApp, BootInv, BuiltInv
  <2>2. sdk = "inRange"
    BY <1>8 DEF CreateApp, Compatible, BootInv, GateInv
  <2>3. QED
    BY <1>0, <1>8, <2>1, <2>2, FactoryStep DEF CreateApp
<1>9. CASE StartupPasses
  <2>1. Accepted /\ checked
    BY <1>9 DEF StartupPasses, BootInv, AcceptedInv, GateInv
  <2>2. QED
    BY <1>0, <1>9, <2>1, PhaseStep DEF StartupPasses
<1>10. CASE StartupFails
  BY <1>0, <1>10, PhaseStep DEF StartupFails
<1>11. CASE UNCHANGED vars
  BY <1>11 DEF vars, BootInv, TypeOK, TriesInv, AcceptedInv, GateInv, BuiltInv,
               Accepted, SdkAccepts, ApiKeyGroupValid,
               PrivateAuthValid, PerConsumerCoherent, IsProduction
<1>12. QED
  BY <1>1, <1>2, <1>3, <1>4, <1>5, <1>6, <1>7, <1>8, <1>9, <1>10, <1>11 DEF Next

LEMMA BootInvariant == Spec => []BootInv
BY BootInit, BootStep, PTL DEF Spec

-----------------------------------------------------------------------------
(* The theorems *)

\* The service keeps its types: no attempt beyond MAX_TRIES is made.
THEOREM BootTypeCorrect == Spec => []TypeOK
<1>1. BootInv => TypeOK
  BY DEF BootInv
<1>2. QED
  BY <1>1, BootInvariant, PTL

\* _compat.py fails closed, every time until it has succeeded: nothing is built
\* or served beside an SDK out of range.
THEOREM BootGateHolds == Spec => []GateHolds
<1>1. BootInv => GateHolds
  BY DEF BootInv, GateInv, GateHolds
<1>2. QED
  BY <1>1, BootInvariant, PTL

\* A client needs an endpoint, an endpoint in production needs an identity, and
\* an identity is not the legacy mode.
THEOREM BootNoLegacyInProduction == Spec => []NoLegacyInProduction
<1>1. BootInv => NoLegacyInProduction
  <2> SUFFICES ASSUME BootInv, built # {}, IsProduction
               PROVE  Mode # "legacy"
    BY DEF NoLegacyInProduction, IsProduction
  <2>1. Accepted /\ built \subseteq Clients
    BY DEF BootInv, AcceptedInv, TypeOK
  <2>2. conf.clientId
    <3>1. CASE "apiKey" \in built
      BY <2>1, <3>1 DEF BootInv, BuiltInv, Accepted, ApiKeyGroupValid
    <3>2. CASE "apiKey" \notin built
      <4>1. conf.introspectionUrl
        BY <2>1, <3>2 DEF Clients, BootInv, BuiltInv, Accepted, SdkAccepts
      <4>2. QED
        BY <2>1, <4>1 DEF Accepted, PrivateAuthValid
    <3>3. QED
      BY <3>1, <3>2
  <2>3. CASE conf.exchange
    BY <2>2, <2>3 DEF Mode
  <2>4. CASE ~ conf.exchange
    BY <2>2, <2>4 DEF Mode
  <2>5. QED
    BY <2>3, <2>4
<1>2. QED
  BY <1>1, BootInvariant, PTL

\* What the validators accept is enough for every client the factories build,
\* the exchange behind an explicit API-key URL excepted.
THEOREM BootClientsConfigured == Spec => []ClientsConfigured
<1>1. BootInv => ClientsConfigured
  <2> SUFFICES ASSUME BootInv PROVE ClientsConfigured
    OBVIOUS
  <2>1. built # {} => Accepted
    BY DEF BootInv, AcceptedInv
  <2>2. built \cap {"revocation", "events"} # {} => conf.introspectionUrl
    BY <2>1 DEF BootInv, BuiltInv, Accepted, SdkAccepts
  <2>3. "apiKey" \in built => conf.apiKeyUrl \/ conf.introspectionUrl
    BY <2>1 DEF BootInv, BuiltInv, Accepted, ApiKeyGroupValid
  <2>4. Mode # "legacy" => conf.clientId
    BY DEF Mode
  <2>5. built # {} /\ Mode # "legacy" => conf.secret
    BY <2>1, <2>4 DEF Accepted, PrivateAuthValid, PerConsumerCoherent
  <2>6. QED
    BY <2>2, <2>3, <2>5 DEF ClientsConfigured
<1>2. QED
  BY <1>1, BootInvariant, PTL

=============================================================================
