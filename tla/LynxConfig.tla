----------------------------- MODULE LynxConfig -----------------------------
(***************************************************************************)
(* lynx::Config (src/lynx/config.hpp): the options of one run come from    *)
(* the command line, the config file, the environment and defaults; they   *)
(* are laid over the TOML document that was read, and the document is      *)
(* written to config_file + ".sav", which is the config file of a later    *)
(* run.  A run may end at any moment, also while it writes.                *)
(*                                                                         *)
(* file[0] is lynx.toml and file[n + 1] is file[n] with ".sav" appended.   *)
(* Of the options, port has a check, env an environment variable and pi a  *)
(* conversion that loses digits; dae and sub have none of these and are    *)
(* left out.  pi is counted in millionths.                                 *)
(***************************************************************************)
EXTENDS Integers

CONSTANTS
    PortValue,  \* what users give for port
    PiValue,    \* what users give for pi, in millionths
    EnvValue,   \* what users give for env; Unset is among them
    MaxFile     \* bound: times that .sav is appended

\* The empty text: env when nobody gives it, and a variable that is not set.
Unset == ""

\* Where six significant digits are five decimals: see SixDigits.
OneToTen == {p \in Nat : 1000000 <= p /\ p < 10000000}

ASSUME ConfigAssumption ==
    /\ PortValue \subseteq Nat
    /\ PiValue \subseteq OneToTen
    /\ Unset \in EnvValue /\ EnvValue \subseteq STRING
    /\ MaxFile \in Nat

VARIABLES
    phase,   \* "idle", "loaded", "writing", "refused"
    file,    \* the documents in the files: one, or none if there is no file
    from,    \* the file this run read
    given,   \* the options on its command line
    data,    \* data_
    root,    \* toml_root_
    target,  \* the file it writes
    origin   \* history: the document that a file was written from, if it was

vars == <<phase, file, from, given, data, root, target, origin>>
run == <<from, given, data, root>>

Files == 0..MaxFile
\* What may be missing is a set of at most one element.
None == {}
Optional(S) == {None} \cup {{v} : v \in S}
The(s) == CHOOSE v \in s : TRUE

\* ConfigData's defaults.
Default == [port |-> 0, pi |-> 3141500, env |-> Unset]
Option == DOMAIN Default

\* Documents: the three options, and whether the rest of the user's file is there.
Nothing == [port |-> None, pi |-> None, env |-> None]
Empty == [option |-> Nothing, other |-> FALSE]

Choices ==
    [port : Optional(PortValue), pi : Optional(PiValue), env : Optional(EnvValue)]

Init ==
    /\ phase = "idle"
    /\ \E choice \in Choices :
            file = [n \in Files |->
                        IF n = 0 THEN {[option |-> choice, other |-> TRUE]} ELSE None]
    /\ from = 0 /\ given = Nothing
    /\ data = Default /\ root = Empty /\ target = 0
    /\ origin = [n \in Files |-> None]

-----------------------------------------------------------------------------
(* One run's options.                                                       *)

\* CLI::App::_process: a source is consulted when those before it are silent.
Setting(cmd, doc, envvar, k) ==
    CASE cmd[k] # None -> cmd[k]
      [] cmd[k] = None /\ doc.option[k] # None -> doc.option[k]
      [] OTHER -> IF k = "env" /\ envvar # Unset THEN {envvar} ELSE None

\* CLI::Range(1024, 65535).
PortRange == 1024..65535

\* Mutant: a port of the command line is not checked.
PortAcceptedUnchecked(cmd, doc, envvar) ==
    cmd.port # None \/ Setting(cmd, doc, envvar, "port") \subseteq PortRange

\* The range is applied to a port that is given, not to the default.
PortAccepted(cmd, doc, envvar) == Setting(cmd, doc, envvar, "port") \subseteq PortRange

OrElse(setting, default) == IF setting = None THEN default ELSE The(setting)

Parsed(cmd, doc, envvar) ==
    [k \in Option |-> OrElse(Setting(cmd, doc, envvar, k), Default[k])]

\* Mutant: env is not laid over the document.
OverrideButEnv(doc, d) ==
    [doc EXCEPT !.option.port = {d.port}, !.option.pi = {d.pi}]

\* override_toml().
Override(doc, d) ==
    [doc EXCEPT !.option = [k \in Option |-> {d[k]}]]

\* Mutant: one digit is lost at every conversion.
DropDigit(p) == p \div 10

\* A double is written with six significant digits; between 1 and 10 these are
\* five decimals.
SixDigits(p) == ((p + 5) \div 10) * 10

\* toml::format.
Formatted(doc) ==
    [doc EXCEPT !.option.pi = {SixDigits(The(@))}]

-----------------------------------------------------------------------------
(* The steps of a run.                                                      *)

\* Config::parse(argc, argv) reads file n.
Parse(n, cmd, envvar) ==
    /\ phase = "idle" /\ file[n] # None
    /\ from' = n /\ given' = cmd
    /\ IF PortAccepted(cmd, The(file[n]), envvar)
       THEN /\ phase' = "loaded"
            /\ data' = Parsed(cmd, The(file[n]), envvar)
            /\ root' = Override(The(file[n]), data')
       ELSE phase' = "refused" /\ UNCHANGED <<data, root>>
    /\ UNCHANGED <<file, target, origin>>

\* write_to_file opens, and so truncates, the file ...
Truncate(n) ==
    /\ phase = "loaded"
    /\ phase' = "writing"
    /\ target' = n
    /\ file' = [file EXCEPT ![n] = {Empty}]
    /\ origin' = [origin EXCEPT ![n] = None]
    /\ UNCHANGED run

\* ... and then writes the document.
Write ==
    /\ phase = "writing"
    /\ phase' = "loaded"
    /\ file' = [file EXCEPT ![target] = {Formatted(root)}]
    /\ origin' = [origin EXCEPT ![target] = {root}]
    /\ target' = 0
    /\ UNCHANGED run

\* write_config(), write_config_as(config_file() + ".sav") as main calls it,
\* and safe_write_config_as of the same name; safe_write_config() can only
\* refuse, as the file was there when it was read.
WriteConfig == file[from] # None /\ Truncate(from)
WriteConfigAs == from < MaxFile /\ Truncate(from + 1)
SafeWriteConfigAs == from < MaxFile /\ file[from + 1] = None /\ Truncate(from + 1)

\* The run ends, normally or not, and its memory is gone.
End ==
    /\ phase # "idle"
    /\ phase' = "idle"
    /\ from' = 0 /\ given' = Nothing
    /\ data' = Default /\ root' = Empty /\ target' = 0
    /\ UNCHANGED <<file, origin>>

Next ==
    \/ \E n \in Files, cmd \in Choices, envvar \in EnvValue : Parse(n, cmd, envvar)
    \/ WriteConfig \/ WriteConfigAs \/ SafeWriteConfigAs \/ Write
    \/ End

Spec == Init /\ [][Next]_vars

-----------------------------------------------------------------------------
(* Properties.                                                              *)

\* A file that was written, read by a run without options, gives the data that
\* it was written from, in whatever environment and after any number of edits
\* and crashes: pi to six digits, everything else exactly, and the parts of the
\* user's file that are no options are there if they were.
SavedFilesAgree ==
    \A n \in Files, envvar \in EnvValue : \A o \in origin[n] :
        LET d == Parsed(Nothing, The(file[n]), envvar)
        IN  /\ d.port \in o.option.port /\ d.env \in o.option.env
            /\ d.pi = SixDigits(The(o.option.pi))
            /\ The(file[n]).other = o.other

\* Saving is stable: a run that was given nothing and read a file that the
\* program wrote, writes that same document; digits are lost once.
SavingIsStable ==
    phase = "loaded" /\ given = Nothing /\ origin[from] # None =>
        Formatted(root) \in file[from]

\* A file that the program wrote is refused by a run without options only for
\* the port 0 of a run that was given none; any port that got past the check
\* once, from whichever source, gets past it again.
OnlyTheDefaultPortIsRefused ==
    phase = "refused" /\ given = Nothing =>
        \A o \in origin[from] : o.option.port = {Default.port}

=============================================================================
