--------------------------- MODULE StartupConfig ---------------------------
(***************************************************************************)
(* How a process gets its configuration (cmd/server/config.go) and its     *)
(* Firebase clients (newApplicationClients, internal/platform/firebase).   *)
(* loadConfig looks at trimmed copies of the environment; the Firebase     *)
(* libraries later read the environment itself.                            *)
(*                                                                         *)
(* A value of a variable is a member of a small set that stands for a      *)
(* class of strings: blank is white space, " valid" is a value between     *)
(* white space, "valid" one the code accepts after trimming.               *)
(***************************************************************************)
EXTENDS Integers, Sequences

CONSTANTS
    Environments,   \* values of APP_ENVIRONMENT
    FirebaseModes,  \* values of FIREBASE_MODE
    Projects,       \* values of FIREBASE_PROJECT_ID
    EmulatorHosts,  \* values of the two emulator host variables
    Origins,        \* lists of entries of CORS_ALLOWED_ORIGINS
    Others          \* values of HOST, PORT and LOG_LEVEL

ASSUME ConfigAssumption ==
    /\ EmulatorHosts \subseteq {"", "blank", "valid", " valid", "no port", "url"}
    /\ Projects \subseteq {"", "blank", "demo", "real", " real"}
    /\ Others \subseteq {"", "blank", "valid", " valid", "wrong"}

VARIABLES
    env,        \* the environment of the process
    config,     \* what loadConfig returned
    auth,       \* what the Auth client talks to
    firestore   \* what the Firestore client talks to

vars == <<env, config, auth, firestore>>

Failed == [ok |-> FALSE]
NotLoaded == [ok |-> FALSE, loaded |-> FALSE]

\* strings.TrimSpace on the classes above.
TrimSpace(v) ==
    CASE v = "blank" -> ""
      [] v = " valid" -> "valid"
      [] v = " real" -> "real"
      [] OTHER -> v

ValueOrDefault(v, fallback) == IF v = "" THEN fallback ELSE v
-----------------------------------------------------------------------------
(* The checks of loadConfig, each on what the ones before let through *)

Environment == ValueOrDefault(TrimSpace(env.environment), "development")
Mode == ValueOrDefault(TrimSpace(env.mode), "offline")
ProjectID == TrimSpace(env.project)
AuthEmulator == TrimSpace(env.authHost)
FirestoreEmulator == TrimSpace(env.firestoreHost)

ValidateOther(v) == ValueOrDefault(TrimSpace(v), "valid") = "valid"

\* Bug: the trimmed values are checked and the raw ones forgotten.
MutantHostsAreTrimmed == TRUE

HostsAreTrimmed == AuthEmulator = env.authHost /\ FirestoreEmulator = env.firestoreHost

ValidateHostPort(host) == host = "valid"

HostsComeTogether == (AuthEmulator = "") = (FirestoreEmulator = "")

\* Bug: emulators are let through in every environment.
MutantModeFits ==
    \/ Mode = "offline" /\ AuthEmulator = ""
    \/ Mode = "emulator" /\ ValidateHostPort(AuthEmulator)
          /\ ValidateHostPort(FirestoreEmulator) /\ ProjectID \in {"", "demo"}
    \/ Mode = "live" /\ ProjectID \notin {"", "demo"} /\ AuthEmulator = ""

ModeFits ==
    \/ /\ Mode = "offline"
       /\ Environment = "development"
       /\ AuthEmulator = ""
    \/ /\ Mode = "emulator"
       /\ Environment = "development"
       /\ ValidateHostPort(AuthEmulator)
       /\ ValidateHostPort(FirestoreEmulator)
       /\ ProjectID \in {"", "demo"}
    \/ /\ Mode = "live"
       /\ ProjectID \notin {"", "demo"}
       /\ AuthEmulator = ""

ValidateFirebaseConfig == HostsComeTogether /\ ModeFits

\* parseCORSOrigins: one bad entry refuses the whole list.
OriginsFit ==
    IF env.origins = <<>> THEN Environment = "development"
    ELSE \A i \in DOMAIN env.origins :
            \/ env.origins[i] = "origin"
            \/ env.origins[i] = "*" /\ Environment = "development"

LoadConfig ==
    /\ config = NotLoaded
    /\ config' =
          IF /\ ValidateOther(env.host) /\ ValidateOther(env.port)
             /\ Environment \in {"development", "staging", "production"}
             /\ HostsAreTrimmed
             /\ ValidateFirebaseConfig
             /\ OriginsFit
             /\ ValidateOther(env.logLevel)
          THEN [ok |-> TRUE, environment |-> Environment, mode |-> Mode,
                project |-> IF ProjectID = "" /\ Mode # "live"
                            THEN "demo" ELSE ProjectID,
                origins |-> IF env.origins = <<>> THEN <<"*">> ELSE env.origins]
          ELSE Failed
    /\ UNCHANGED <<env, auth, firestore>>

\* newApplicationClients: offline no client is made; otherwise each client
\* decides for itself, from its own variable as it stands.
InitializeClients ==
    /\ config.ok
    /\ auth = "none" /\ firestore = "none"
    /\ config.mode # "offline"
    /\ auth' = IF env.authHost = "" THEN "live" ELSE "emulator"
    /\ firestore' = IF env.firestoreHost = "" THEN "live" ELSE "emulator"
    /\ UNCHANGED <<env, config>>

Init ==
    /\ env \in [environment : Environments, mode : FirebaseModes,
                project : Projects, authHost : EmulatorHosts,
                firestoreHost : EmulatorHosts, origins : Origins,
                host : Others, port : {""}, logLevel : {""}]
    /\ config = NotLoaded
    /\ auth = "none"
    /\ firestore = "none"

Next == LoadConfig \/ InitializeClients

Spec == Init /\ [][Next]_vars
-----------------------------------------------------------------------------
(* Properties *)

\* Both clients talk to what FIREBASE_MODE says, to the emulators or to the
\* project, never one to each: what the libraries read from the environment
\* is what loadConfig checked (the comparison of raw and trimmed hosts, and
\* validateFirebaseConfig).
ClientsFollowTheMode ==
    auth # "none" \/ firestore # "none" =>
        auth = config.mode /\ firestore = config.mode

\* Environments do not mix.  Unsigned emulator tokens and demo projects stay
\* in development, and a real project is never reached through an emulator;
\* elsewhere a process has its clients, a real project and a list of origins
\* without a wildcard (README, "These checks prevent accidental use of the
\* Auth emulator outside development").
EnvironmentsStayApart ==
    /\ "emulator" \in {auth, firestore} =>
          config.environment = "development" /\ config.project = "demo"
    /\ config.ok /\ config.environment # "development" =>
          /\ config.mode = "live" /\ config.project = "real"
          /\ \A i \in DOMAIN config.origins : config.origins[i] = "origin"
=============================================================================
