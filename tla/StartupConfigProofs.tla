------------------------ MODULE StartupConfigProofs ------------------------
(***************************************************************************)
(* Proofs about StartupConfig, for every choice of the values an           *)
(* environment may have and every list of origins.                         *)
(***************************************************************************)
EXTENDS StartupConfig, TLAPS

EnvType == [environment : Environments, mode : FirebaseModes,
            project : Projects, authHost : EmulatorHosts,
            firestoreHost : EmulatorHosts, origins : Origins,
            host : Others, port : {""}, logLevel : {""}]

\* The configuration loadConfig makes of an environment.
Loaded ==
    [ok |-> TRUE, environment |-> Environment, mode |-> Mode,
     project |-> IF ProjectID = "" /\ Mode # "live" THEN "demo" ELSE ProjectID,
     origins |-> IF env.origins = <<>> THEN <<"*">> ELSE env.origins]

\* A process has either no configuration or one that passed every check.
ConfigOK ==
    config.ok => /\ config = Loaded
                 /\ HostsAreTrimmed
                 /\ ValidateFirebaseConfig
                 /\ OriginsFit

\* Each client is made once, from its own variable.
ClientsOK ==
    \/ auth = "none" /\ firestore = "none"
    \/ /\ config.ok /\ config.mode # "offline"
       /\ auth = IF env.authHost = "" THEN "live" ELSE "emulator"
       /\ firestore = IF env.firestoreHost = "" THEN "live" ELSE "emulator"

IInv == env \in EnvType /\ ConfigOK /\ ClientsOK
-----------------------------------------------------------------------------
(* What the checks let through                                             *)

\* Emulators and a real project exclude each other, and the hosts are what the
\* mode says, also before they are trimmed.
LEMMA CheckedHosts ==
    ASSUME HostsAreTrimmed, ValidateFirebaseConfig
    PROVE  \/ Mode = "offline" /\ Environment = "development"
           \/ /\ Mode = "emulator" /\ Environment = "development"
              /\ env.authHost # "" /\ env.firestoreHost # ""
              /\ ProjectID \in {"", "demo"}
           \/ /\ Mode = "live" /\ ProjectID \notin {"", "demo"}
              /\ env.authHost = "" /\ env.firestoreHost = ""
  <1>1. AuthEmulator = env.authHost /\ FirestoreEmulator = env.firestoreHost
    BY DEF HostsAreTrimmed
  <1>2. HostsComeTogether /\ ModeFits
    BY DEF ValidateFirebaseConfig
  <1>3. CASE /\ Mode = "emulator" /\ Environment = "development"
             /\ ValidateHostPort(AuthEmulator)
             /\ ValidateHostPort(FirestoreEmulator)
             /\ ProjectID \in {"", "demo"}
    BY <1>1, <1>3 DEF ValidateHostPort
  <1>4. CASE /\ Mode = "live" /\ ProjectID \notin {"", "demo"}
             /\ AuthEmulator = ""
    <2>1. FirestoreEmulator = ""
      BY <1>2, <1>4 DEF HostsComeTogether
    <2> QED
      BY <1>1, <1>4, <2>1
  <1> QED
    BY <1>2, <1>3, <1>4 DEF ModeFits

\* A project that is not the demo project is a real one.
LEMMA RealProject ==
    ASSUME env \in EnvType, ProjectID \notin {"", "demo"}
    PROVE  ProjectID = "real"
  <1>1. env.project \in {"", "blank", "demo", "real", " real"}
    BY ConfigAssumption DEF EnvType
  <1> QED
    BY <1>1 DEF ProjectID, TrimSpace

\* Outside development a list of origins is given, without a wildcard.
LEMMA CheckedOrigins ==
    ASSUME OriginsFit, Environment # "development"
    PROVE  /\ env.origins # <<>>
           /\ \A i \in DOMAIN env.origins : env.origins[i] = "origin"
  BY DEF OriginsFit
-----------------------------------------------------------------------------
(* The invariant holds                                                     *)

\* A configuration that was loaded has these parts.
LEMMA LoadedParts ==
    ASSUME ConfigOK, config.ok
    PROVE  /\ config.mode = Mode /\ config.environment = Environment
           /\ config.project = IF ProjectID = "" /\ Mode # "live"
                               THEN "demo" ELSE ProjectID
           /\ config.origins = IF env.origins = <<>> THEN <<"*">>
                               ELSE env.origins
           /\ HostsAreTrimmed /\ ValidateFirebaseConfig /\ OriginsFit
  <1>1. /\ config = Loaded
        /\ HostsAreTrimmed /\ ValidateFirebaseConfig /\ OriginsFit
    BY Zenon DEF ConfigOK
  <1>2. /\ Loaded.mode = Mode /\ Loaded.environment = Environment
        /\ Loaded.project = IF ProjectID = "" /\ Mode # "live"
                            THEN "demo" ELSE ProjectID
        /\ Loaded.origins = IF env.origins = <<>> THEN <<"*">> ELSE env.origins
    BY DEF Loaded
  <1> QED
    BY <1>1, <1>2

LEMMA InitEstablishes == Init => IInv
  <1> SUFFICES ASSUME Init PROVE IInv
    OBVIOUS
  <1>1. env \in EnvType /\ ClientsOK
    BY DEF Init, EnvType, ClientsOK
  <1>2. ~config.ok
    BY DEF Init, NotLoaded
  <1> QED
    BY <1>1, <1>2 DEF IInv, ConfigOK

LEMMA LoadPreserves == ASSUME IInv, LoadConfig PROVE IInv'
  <1>1. /\ env' = env /\ auth' = auth /\ firestore' = firestore
        /\ ~config.ok
    BY DEF LoadConfig, NotLoaded
  <1>2. auth = "none" /\ firestore = "none"
    BY <1>1 DEF IInv, ClientsOK
  <1>3. \/ config' = Failed
        \/ /\ config' = Loaded /\ HostsAreTrimmed /\ ValidateFirebaseConfig
           /\ OriginsFit
    BY DEF LoadConfig, Loaded
  <1>4. /\ Loaded' = Loaded /\ HostsAreTrimmed' = HostsAreTrimmed
        /\ ValidateFirebaseConfig' = ValidateFirebaseConfig
        /\ OriginsFit' = OriginsFit
    BY <1>1 DEF Loaded, HostsAreTrimmed, ValidateFirebaseConfig, OriginsFit,
                HostsComeTogether, ModeFits, Environment, Mode, ProjectID,
                AuthEmulator, FirestoreEmulator
  <1>5. ConfigOK'
    BY <1>3, <1>4 DEF ConfigOK, Failed
  <1> QED
    BY <1>1, <1>2, <1>5 DEF IInv, ClientsOK

LEMMA InitializePreserves == ASSUME IInv, InitializeClients PROVE IInv'
  <1>1. /\ env' = env /\ config' = config
        /\ config.ok /\ config.mode # "offline"
        /\ auth' = IF env.authHost = "" THEN "live" ELSE "emulator"
        /\ firestore' = IF env.firestoreHost = "" THEN "live" ELSE "emulator"
    BY DEF InitializeClients
  <1>2. /\ Loaded' = Loaded /\ HostsAreTrimmed' = HostsAreTrimmed
        /\ ValidateFirebaseConfig' = ValidateFirebaseConfig
        /\ OriginsFit' = OriginsFit
    BY <1>1 DEF Loaded, HostsAreTrimmed, ValidateFirebaseConfig, OriginsFit,
                HostsComeTogether, ModeFits, Environment, Mode, ProjectID,
                AuthEmulator, FirestoreEmulator
  <1>3. ConfigOK'
    BY <1>1, <1>2 DEF IInv, ConfigOK
  <1> QED
    BY <1>1, <1>3 DEF IInv, ClientsOK

LEMMA StepPreserves == IInv /\ [Next]_vars => IInv'
  <1> SUFFICES ASSUME IInv, [Next]_vars PROVE IInv'
    OBVIOUS
  <1>1. CASE LoadConfig
    BY <1>1, LoadPreserves
  <1>2. CASE InitializeClients
    BY <1>2, InitializePreserves
  <1>3. CASE UNCHANGED vars
    <2>1. env' = env /\ config' = config /\ auth' = auth /\ firestore' = firestore
      BY <1>3 DEF vars
    <2> QED
      BY <2>1 DEF IInv, ConfigOK, ClientsOK, Loaded, HostsAreTrimmed,
                  ValidateFirebaseConfig, OriginsFit, HostsComeTogether, ModeFits,
                  Environment, Mode, ProjectID, AuthEmulator, FirestoreEmulator
  <1> QED
    BY <1>1, <1>2, <1>3 DEF Next

\* A configuration passed every check of the environment the process still
\* has, and its clients are made of that environment (loadConfig,
\* newApplicationClients).
THEOREM Invariance == Spec => []IInv
  <1> QED
    BY InitEstablishes, StepPreserves, PTL DEF Spec
-----------------------------------------------------------------------------
(* The properties                                                          *)

LEMMA ClientsAgree == IInv => ClientsFollowTheMode
  <1> SUFFICES ASSUME IInv, auth # "none" \/ firestore # "none"
               PROVE  auth = config.mode /\ firestore = config.mode
    BY DEF ClientsFollowTheMode
  <1>1. /\ config.ok /\ config.mode # "offline"
        /\ auth = IF env.authHost = "" THEN "live" ELSE "emulator"
        /\ firestore = IF env.firestoreHost = "" THEN "live" ELSE "emulator"
    BY DEF IInv, ClientsOK
  <1>2. config.mode = Mode /\ HostsAreTrimmed /\ ValidateFirebaseConfig
    BY <1>1, LoadedParts DEF IInv
  <1> QED
    BY <1>1, <1>2, CheckedHosts

\* Both clients talk to what FIREBASE_MODE says, never one to each, although
\* the libraries read the environment and not what loadConfig made of it.
THEOREM ClientsFollow == Spec => []ClientsFollowTheMode
  <1> QED
    BY Invariance, ClientsAgree, PTL

LEMMA ApartFromChecks == IInv => EnvironmentsStayApart
  <1> SUFFICES ASSUME IInv PROVE EnvironmentsStayApart
    OBVIOUS
  <1>1. ASSUME "emulator" \in {auth, firestore}
        PROVE  config.environment = "development" /\ config.project = "demo"
    <2>1. /\ config.ok /\ config.mode # "offline"
          /\ auth = IF env.authHost = "" THEN "live" ELSE "emulator"
          /\ firestore = IF env.firestoreHost = "" THEN "live" ELSE "emulator"
      BY <1>1 DEF IInv, ClientsOK
    <2>2. /\ config.mode = Mode /\ config.environment = Environment
          /\ config.project = IF ProjectID = "" /\ Mode # "live"
                              THEN "demo" ELSE ProjectID
          /\ HostsAreTrimmed /\ ValidateFirebaseConfig
      BY <2>1, LoadedParts DEF IInv
    <2> QED
      BY <1>1, <2>1, <2>2, CheckedHosts
  <1>2. ASSUME config.ok, config.environment # "development"
        PROVE  /\ config.mode = "live" /\ config.project = "real"
               /\ \A i \in DOMAIN config.origins : config.origins[i] = "origin"
    <2>1. /\ config.mode = Mode /\ config.environment = Environment
          /\ config.project = IF ProjectID = "" /\ Mode # "live"
                              THEN "demo" ELSE ProjectID
          /\ config.origins = IF env.origins = <<>> THEN <<"*">> ELSE env.origins
          /\ HostsAreTrimmed /\ ValidateFirebaseConfig /\ OriginsFit
      BY <1>2, LoadedParts DEF IInv
    <2>2. Mode = "live" /\ ProjectID \notin {"", "demo"}
      BY <1>2, <2>1, CheckedHosts
    <2>3. ProjectID = "real"
      BY <2>2, RealProject DEF IInv
    <2>4. /\ env.origins # <<>>
          /\ \A i \in DOMAIN env.origins : env.origins[i] = "origin"
      BY <1>2, <2>1, CheckedOrigins
    <2> QED
      BY <2>1, <2>2, <2>3, <2>4
  <1> QED
    BY <1>1, <1>2 DEF EnvironmentsStayApart

\* Emulators and demo projects stay in development; elsewhere a process has
\* its clients, a real project and origins without a wildcard (loadConfig,
\* validateFirebaseConfig, parseCORSOrigins).
THEOREM StayApart == Spec => []EnvironmentsStayApart
  <1> QED
    BY Invariance, ApartFromChecks, PTL
=============================================================================
