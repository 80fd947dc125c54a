------------------------------- MODULE Config -------------------------------
(***************************************************************************)
(* The configuration of webvirtd: main() parses the command line, then the  *)
(* configuration file, then the command line again (main.cpp,               *)
(* util/config.cpp), and sets the flags of the logger (util/logging.cpp).   *)
(* boost::program_options is external: store() keeps the first explicit     *)
(* value of an option and gives options without one their default.          *)
(*                                                                          *)
(* What an option means is left out: a value is a number, and --config only *)
(* names the file.                                                          *)
(***************************************************************************)
EXTENDS Naturals

CONSTANTS
    Settings,   \* the options that take a value
    Values,     \* their values
    Default     \* the default of each of them

ASSUME DefaultAssumption == Values \subseteq Nat /\ Default \in [Settings -> Values]

VARIABLES
    stage,      \* of main(), see Stage
    argv,       \* the options of the command line, see Source
    file,       \* the options of the configuration file
    vm_,        \* config::vm_: the flags and the values that are set
    final_,     \* the settings that store() does not set again
    debug_,     \* logger::debug_
    time_       \* logger::time_

configVars == <<stage, argv, file, vm_, final_, debug_, time_>>

(***************************************************************************)
(*   parse     the first conf.parse(argc, argv)                             *)
(*   version   looking for --version                                        *)
(*   logger    setting the flags of the logger                              *)
(*   help      looking for --help                                           *)
(*   file      conf.parse(config_path)                                      *)
(*   again     the second conf.parse(argc, argv)                            *)
(*   change    config::change(conf)                                         *)
(*   launched  in webvirt_main                                              *)
(*   printed   returned 0 from main()                                       *)
(*   rejected  returned 1 from main()                                       *)
(*   aborted   an exception that nothing catches                            *)
(***************************************************************************)
Stage == {"parse", "version", "logger", "help", "file", "again", "change",
          "launched", "printed", "rejected", "aborted"}

\* The options without a value.  All but help may be in the file as well.
Flags == {"help", "version", "verbose", "disable-timestamp"}

\* What a command line or a file holds.
Source == [flags : SUBSET Flags, values : UNION {[S -> Values] : S \in SUBSET Settings}]
FileSource == {src \in Source : "help" \notin src.flags}
Nothing == [flags |-> {}, values |-> [o \in {} |-> Default[o]]]

ConfigInit ==
    /\ stage = "parse"
    /\ argv \in Source
    /\ file = Nothing
    /\ vm_ = Nothing
    /\ final_ = {}
    /\ debug_ = FALSE
    /\ time_ = TRUE
----------------------------------------------------------------------------
\* boost::program_options::store (external).
Stored(src) ==
    [flags  |-> vm_.flags \cup src.flags,
     values |-> [o \in Settings |->
                    IF o \in DOMAIN src.values \ final_ THEN src.values[o]
                    ELSE IF o \in DOMAIN vm_.values THEN vm_.values[o]
                    ELSE Default[o]]]

Store(src) ==
    /\ vm_' = Stored(src)
    /\ final_' = final_ \cup DOMAIN src.values

\* config::has.
Has(name) == name \in vm_.flags

\* Mutant: a first look at the command line that stores its flags only.
ParseArgvLooks ==
    /\ stage = "parse"
    /\ Store([argv EXCEPT !.values = Nothing.values])
    /\ stage' = "version"
    /\ UNCHANGED <<argv, file, debug_, time_>>

\* The command line is parsed.
ParseArgv ==
    /\ stage = "parse"
    /\ Store(argv)
    /\ stage' = "version"
    /\ UNCHANGED <<argv, file, debug_, time_>>

\* It has an unknown option, which main() reports, or another fault.
ParseArgvFails ==
    /\ stage = "parse"
    /\ stage' \in {"rejected", "aborted"}
    /\ UNCHANGED <<argv, file, vm_, final_, debug_, time_>>

CheckVersion ==
    /\ stage = "version"
    /\ stage' = IF Has("version") THEN "printed" ELSE "logger"
    /\ UNCHANGED <<argv, file, vm_, final_, debug_, time_>>

\* logger::enable_timestamp and logger::enable_debug.
SetLogger ==
    /\ stage = "logger"
    /\ time_' = ~Has("disable-timestamp")
    /\ debug_' = Has("verbose")
    /\ stage' = "help"
    /\ UNCHANGED <<argv, file, vm_, final_>>

CheckHelp ==
    /\ stage = "help"
    /\ stage' = IF Has("help") THEN "printed" ELSE "file"
    /\ UNCHANGED <<argv, file, vm_, final_, debug_, time_>>

\* The configuration file exists and is parsed ...
ParseFile(src) ==
    /\ stage = "file"
    /\ file' = src
    /\ Store(src)
    /\ stage' = "again"
    /\ UNCHANGED <<argv, debug_, time_>>

\* ... does not exist ...
NoFile ==
    /\ stage = "file"
    /\ stage' = "again"
    /\ UNCHANGED <<argv, file, vm_, final_, debug_, time_>>

\* ... or has a fault: here nothing catches an unknown option, either.
ParseFileFails ==
    /\ stage = "file"
    /\ stage' = "aborted"
    /\ UNCHANGED <<argv, file, vm_, final_, debug_, time_>>

ParseAgain ==
    /\ stage = "again"
    /\ Store(argv)
    /\ stage' = "change"
    /\ UNCHANGED <<argv, file, debug_, time_>>

\* config::change makes this the configuration that config::ref returns.  The
\* sources are not looked at any more.
Launch ==
    /\ stage = "change"
    /\ stage' = "launched"
    /\ argv' = Nothing
    /\ file' = Nothing
    /\ UNCHANGED <<vm_, final_, debug_, time_>>

ConfigNext ==
    \/ ParseArgv \/ ParseArgvFails \/ CheckVersion \/ SetLogger \/ CheckHelp
    \/ (\E src \in FileSource : ParseFile(src)) \/ NoFile \/ ParseFileFails
    \/ ParseAgain \/ Launch

\* config::get, once the configuration is the one that config::ref returns.
Get(name) == vm_.values[name]
----------------------------------------------------------------------------
(***************************************************************************)
(* Properties.                                                              *)
(***************************************************************************)
\* What a user who reads the help expects of an option.
Effective(o) ==
    IF o \in DOMAIN argv.values THEN argv.values[o]
    ELSE IF o \in DOMAIN file.values THEN file.values[o] ELSE Default[o]

\* "Parse command-line again; those options are prioritized over config"
\* (main.cpp): the daemon starts with the values of the command line, then
\* those of the file, then the defaults, although store() lets the first win.
Precedence == stage = "change" => \A o \in Settings : vm_.values[o] = Effective(o)
----------------------------------------------------------------------------
(***************************************************************************)
(* The inductive invariant behind the theorems of DaemonProofs.             *)
(***************************************************************************)
\* The settings that are final are the ones that a source has given so far.
StoredInv ==
    /\ stage = "parse" => vm_ = Nothing /\ final_ = {}
    /\ stage \in {"parse", "version", "logger", "help", "file"} => file = Nothing
    /\ stage \in {"version", "logger", "help", "file", "again", "change"} =>
          /\ DOMAIN vm_.values = Settings
          /\ final_ = DOMAIN argv.values \cup DOMAIN file.values
          /\ \A o \in Settings : vm_.values[o] = Effective(o)
    /\ stage = "launched" => DOMAIN vm_.values = Settings
=============================================================================
