--------------------------- MODULE ProviderConfig ---------------------------
(***************************************************************************)
(* The provider configuration (internal/provider/provider.go): which file  *)
(* is read, how it is laid over the built-in defaults, what is accepted,   *)
(* and which artifact a command gets. A provider is a function from its    *)
(* networks to theirs from kinds to artifacts, None where there is none.   *)
(***************************************************************************)
EXTENDS Naturals, Sequences, SequencesExt

CONSTANTS AllKinds, None

-----------------------------------------------------------------------------
(* Mutant: a network of the user's file replaces that of the defaults. *)
ReplaceNetwork(base, over) == over

(* setArtifact for every kind that the user's network has. *)
MergeNetwork(base, over) ==
  [kind \in AllKinds |-> IF over[kind] # None THEN over[kind] ELSE base[kind]]

(* What only one of the two has is taken as it is, at every level; "merged" *)
(* is what becomes of the rest.                                            *)
Laid(base, over, merged) ==
  [x \in DOMAIN base \cup DOMAIN over |->
     IF x \notin DOMAIN over THEN base[x] ELSE IF x \notin DOMAIN base THEN over[x] ELSE merged[x]]

MergeProvider(base, over) ==
  Laid(base, over, [n \in DOMAIN base \cap DOMAIN over |-> MergeNetwork(base[n], over[n])])

Merge(base, over) ==
  [version   |-> IF over.version # 0 THEN over.version ELSE base.version,
   default   |-> IF over.default # "" THEN over.default ELSE base.default,
   providers |-> Laid(base.providers, over.providers,
                    [p \in DOMAIN base.providers \cap DOMAIN over.providers |->
                       MergeProvider(base.providers[p], over.providers[p])])]

(* Resolve; None stands for its three errors. *)
Resolve(config, provider, network, kind) ==
  LET name == IF provider = "" THEN config.default ELSE provider
  IN IF name \in DOMAIN config.providers /\ network \in DOMAIN config.providers[name]
       THEN config.providers[name][network][kind] ELSE None

-----------------------------------------------------------------------------
(* CheckURL. A URL is its scheme and what is known of its host. *)
CheckURL(url, insecure) ==
  \/ url.scheme = "https" /\ url.host # ""
  \/ url.scheme = "http" /\ url.host # "" /\ (insecure \/ url.host = "loopback")

NoURL == [scheme |-> "", host |-> ""]

(* Mutant: only the endpoint of the objects is checked. *)
EndpointChecked(artifact) ==
  artifact.backend \in {"http", "apt"} => CheckURL(artifact.at, artifact.insecure)

(* Artifact.validate, the URLs: "at" is the base_url, or the repository. *)
URLsChecked(artifact) ==
  /\ artifact.backend \in {"http", "apt"} => CheckURL(artifact.at, artifact.insecure)
  /\ artifact.backend = "http" /\ artifact.index # NoURL => CheckURL(artifact.index, artifact.insecure)

(* Artifact.validate, the rest. A backend has its bucket, path or package; a *)
(* name has a template that CheckTemplate accepts, and a database a plain    *)
(* name.                                                                     *)
FieldsChecked(artifact, kind) ==
  /\ artifact.backend \in {"gcs", "http", "file", "apt"} /\ artifact.at # NoURL
  /\ artifact.backend = "apt" => kind = "daemon_config"
  /\ artifact.checksum \in {"index", "sidecar", "none", ""}
  /\ artifact.checksum = "index" => artifact.backend = "apt"
  /\ artifact.insecure => artifact.backend \in {"http", "apt"}
  /\ artifact.database # "" => kind = "archive_dump"

Valid(artifact, kind) == FieldsChecked(artifact, kind) /\ URLsChecked(artifact)

(* validate *)
Validate(config) ==
  /\ config.version = 1
  /\ DOMAIN config.providers # {} /\ config.default \in DOMAIN config.providers
  /\ \A p \in DOMAIN config.providers : \A n \in DOMAIN config.providers[p] : \A kind \in AllKinds :
       config.providers[p][n][kind] # None => Valid(config.providers[p][n][kind], kind)

(* Load, once it has the user's file: what the commands Resolve in. *)
Merged(base, over) ==
  LET config == Merge(base, over) IN [accepted |-> Validate(config), config |-> config]

-----------------------------------------------------------------------------
(* applyEnvDefaults fills the flag --provider-config from the environment   *)
(* when it was not typed; Load reads the same variable when the flag is     *)
(* empty. "typed" is None for a flag that is not on the command line; a     *)
(* variable that is not set is "", as os.Getenv has it.                     *)
Blank(value) == value \in {"", "blank"}

FlagValue(typed, env) == IF typed # None THEN typed ELSE IF Blank(env) THEN "" ELSE env

(* Mutant: a file that is named and not there is passed over. *)
LoadIfThere(explicit, env, searchPaths, files) ==
  LET there == SelectSeq(<<explicit, env>> \o searchPaths, LAMBDA f : f \in files)
  IN IF there = <<>> THEN "defaults" ELSE there[1]

(* Load: the file whose content is laid over the defaults. *)
Load(explicit, env, searchPaths, files) ==
  LET named == IF explicit # "" THEN explicit ELSE env
      there == SelectInSeq(searchPaths, LAMBDA f : f \in files)
  IN IF named # "" THEN IF named \in files THEN named ELSE "error"
     ELSE IF there = 0 THEN "defaults" ELSE searchPaths[there]
=============================================================================
