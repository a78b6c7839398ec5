------------------------------- MODULE Config ------------------------------
(***************************************************************************)
(* config/config.go: NewConfig as a function of what a starting process    *)
(* finds, its configuration file and its environment.  A source is a       *)
(* function over the settings it gives: a variable that is not set and one *)
(* that is empty are the same to os.Getenv, and a field that YAML does not *)
(* mention keeps its zero value.                                           *)
(***************************************************************************)
EXTENDS Integers, Sequences

CONSTANTS
    Bad,               \* a text that strconv.Atoi or ParseBool refuses
    DefaultKeyLength,
    DefaultMaxLength

\* What DefaultConfig gives them: a length of zero would not be a default.
ASSUME ConfigConstants ==
    DefaultKeyLength \in Nat \ {0} /\ DefaultMaxLength \in Nat \ {0}

\* The settings by the parser their environment variables go through.
Numbers == {"port", "key_length", "max_length", "static_max_age", "storage_port",
            "rate_limiting_limit", "rate_limiting_window"}
Flags == {"recompress_static_assets", "logging_colorize", "rate_limiting_enable"}
Texts == {"host", "key_generator", "storage_type", "storage_host", "storage_username",
          "storage_password", "storage_database", "storage_bucket",
          "storage_aws_region", "storage_file_path", "logging_level"}
EnvSettings == Numbers \cup Flags \cup Texts

\* Two settings have no environment variable; key_space is a sequence of bytes.
Settings == EnvSettings \cup {"expiration", "key_space"}

Zero(s) ==
    CASE s \in Numbers \cup {"expiration"} -> 0
      [] s \in Flags -> FALSE
      [] s \in Texts -> ""
      [] s = "key_space" -> <<>>

\* DefaultConfig, as far as NewConfig uses it: not its documents.
Default ==
    [host |-> "0.0.0.0", port |-> 7777, key_length |-> DefaultKeyLength,
     max_length |-> DefaultMaxLength, static_max_age |-> 3,
     key_generator |-> "phonetic", storage_type |-> "file",
     storage_file_path |-> "data", logging_level |-> "info"]

\* What a process finds.  readable says whether the file can be read, or is not
\* there, and is YAML; documents is its list, variables are the DOCUMENTS_
\* variables in the order of the environment, with their paths cut at every
\* "=", and content is what is at each path.
Deployment(file, env, documents, variables, content) ==
    [readable |-> TRUE, file |-> file, env |-> env, documents |-> documents,
     variables |-> variables, content |-> content]

\* log.Fatal: the file is no configuration, or a number or flag does not parse.
Rejected(d) ==
    \/ ~d.readable
    \/ \E s \in DOMAIN d.env \cap (Numbers \cup Flags) : d.env[s] = Bad

\* The environment overrides the file.
Read(d) ==
    [s \in Settings |-> IF s \in DOMAIN d.env THEN d.env[s]
                        ELSE IF s \in DOMAIN d.file THEN d.file[s] ELSE Zero(s)]

WithDefaults(c) ==
    [s \in Settings |->
        IF s \in DOMAIN Default /\ c[s] = Zero(s) THEN Default[s] ELSE c[s]]

\* Mutant of NewConfig: the defaults come before the environment.
NewConfigDefaultsFirst(d) ==
    LET fromFile == WithDefaults(Read([d EXCEPT !.env = <<>>])) IN
    [s \in Settings |-> IF s \in DOMAIN d.env THEN d.env[s] ELSE fromFile[s]]

\* A zero, from wherever it comes, is replaced by the default.
NewConfig(d) == WithDefaults(Read(d))

\* strings.Split(env[10:], "=") gives two parts, or the entry is passed over.
Accepted(variable) == Len(variable.path) = 1

\* cfg.Documents: those of the file, and one for each variable the loop accepts.
Documents(d) ==
    LET after[n \in 0..Len(d.variables)] ==
            IF n = 0 THEN d.documents
            ELSE LET variable == d.variables[n] IN
                 IF Accepted(variable)
                 THEN Append(after[n - 1], [key |-> variable.key, path |-> Head(variable.path)])
                 ELSE after[n - 1]
    IN after[Len(d.variables)]
=============================================================================
