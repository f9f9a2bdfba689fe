--------------------------------- MODULE Config ---------------------------------
(***************************************************************************)
(* load_config, as every enable calls it: the lines of the file, if there  *)
(* is one, then the environment, into six globals that keep what no line   *)
(* and no variable sets.  A line is [KEY:value], possibly indented with    *)
(* spaces; with anything else before the bracket it is skipped.  stol      *)
(* throws out of the middle.  A known key without a colon reads past the   *)
(* end of a vector (config.cpp:51) and is left out.                        *)
(***************************************************************************)
EXTENDS Integers, Sequences

CONSTANTS
    Text,       \* the values lines and variables have
    Stol,       \* the number each begins with, or NaN: no number, or too large
    NaN,
    Files,      \* what the file may hold, a sequence of lines or Missing
    Missing,
    Envs,       \* what the environment may be
    Unset,
    Uint16,     \* 2^16
    Uint32,     \* 2^32, or less where TLC counts
    MaxLoads    \* bound on the enables

Key == {"PORT", "TURNTIME", "MAX_CLIENTS", "INGAME_TIME", "AUTOSAVE_WHILE_IDLE", "SECRET"}
Number == {"PORT", "TURNTIME", "MAX_CLIENTS"}
Flag == {"INGAME_TIME", "AUTOSAVE_WHILE_IDLE"}

\* The order in which the variables are read.
Vars == <<"PORT", "TURNTIME", "MAX_CLIENTS", "INGAME_TIME", "AUTOSAVE_WHILE_IDLE", "SECRET">>

Form == {"plain", "indented", "skipped"}
Line == [form : Form, key : Key \cup {"OTHER"}, val : Text]

ASSUME TextAssumption == Stol \in [Text -> Int \cup {NaN}] /\ NaN \notin Int
ASSUME FilesAssumption == Files \subseteq Seq(Line) \cup {Missing} /\ Missing \notin Seq(Line)
ASSUME EnvsAssumption == Envs \subseteq [Key -> Text \cup {Unset}] /\ Unset \notin Text
ASSUME WidthAssumption ==
    Uint16 \in Nat \ {0} /\ Uint32 \in Nat \ {0} /\ MaxLoads \in Nat

VARIABLES
    settings,  \* the six globals
    file,      \* data/init/webfort.txt
    env,       \* the environment of the process
    pc,
    pos,       \* the next line, or the next variable
    prior,     \* the settings when this load began (history)
    outcome,   \* what the last load returned
    loads

vars == <<settings, file, env, pc, pos, prior, outcome, loads>>

--------------------------------------------------------------------------------
(* Conversions *)

\* What a cast of a long to the setting's type keeps of it.
Cast(k, n) ==
    CASE k = "PORT" -> n % Uint16
      [] k = "MAX_CLIENTS" -> n % Uint32
      [] k = "TURNTIME" -> ((n + Uint32 \div 2) % Uint32) - Uint32 \div 2

\* substr(b + 1, e - 1) takes a length for an end: on an indented line the value
\* keeps its bracket and what follows.
Bracketed(l) == l.form = "indented"

FileThrows(l) == l.key \in Number /\ Stol[l.val] = NaN

FileValue(l) ==
    CASE l.key \in Number -> Cast(l.key, Stol[l.val])
      [] l.key \in Flag -> l.val = "YES" /\ ~Bracketed(l)
      [] l.key = "SECRET" -> [text |-> l.val, bracket |-> Bracketed(l)]

EnvThrows(k) == k # "SECRET" /\ Stol[env[k]] = NaN

\* A flag is YES in the file and a number in the environment.
EnvValue(k) ==
    CASE k \in Number -> Cast(k, Stol[env[k]])
      [] k \in Flag -> Stol[env[k]] # 0
      [] k = "SECRET" -> [text |-> env[k], bracket |-> FALSE]

--------------------------------------------------------------------------------
(* The load *)

Default(k) ==
    CASE k = "PORT" -> Cast(k, 1234)
      [] k = "TURNTIME" -> Cast(k, 600)
      [] k = "MAX_CLIENTS" -> Cast(k, 32)
      [] k \in Flag -> FALSE
      [] k = "SECRET" -> [text |-> "", bracket |-> FALSE]

Init ==
    /\ settings = [k \in Key |-> Default(k)]
    /\ file = Missing
    /\ env \in Envs
    /\ pc = "idle" /\ pos = 1
    /\ prior = settings
    /\ outcome = "none"
    /\ loads = 0

\* load_text_file() && load_env_vars(): without the file, that is all.  The file
\* may have been edited since the last enable, the environment may not.
load_config ==
    /\ pc = "idle" /\ loads < MaxLoads
    /\ file' \in Files
    /\ loads' = loads + 1
    /\ prior' = settings
    /\ pos' = 1
    /\ IF file' = Missing
         THEN outcome' = "false" /\ UNCHANGED pc
         ELSE outcome' = "none" /\ pc' = "file"
    /\ UNCHANGED <<settings, env>>

Reading == pc = "file" /\ pos <= Len(file)

Skipped(l) == l.form = "skipped" \/ l.key = "OTHER"

SkipLine ==
    /\ Reading /\ Skipped(file[pos])
    /\ pos' = pos + 1
    /\ UNCHANGED <<settings, file, env, pc, prior, outcome, loads>>

\* A slip: a bug the code might have had in the definition that follows, used
\* only to test the property.
ApplyLine_FirstWins ==
    /\ Reading /\ ~Skipped(file[pos]) /\ ~FileThrows(file[pos])
    /\ settings' = IF settings[file[pos].key] # prior[file[pos].key] THEN settings
                   ELSE [settings EXCEPT ![file[pos].key] = FileValue(file[pos])]
    /\ pos' = pos + 1
    /\ UNCHANGED <<file, env, pc, prior, outcome, loads>>

ApplyLine ==
    /\ Reading /\ ~Skipped(file[pos]) /\ ~FileThrows(file[pos])
    /\ settings' = [settings EXCEPT ![file[pos].key] = FileValue(file[pos])]
    /\ pos' = pos + 1
    /\ UNCHANGED <<file, env, pc, prior, outcome, loads>>

\* The exception leaves what was set before it.
BadLine ==
    /\ Reading /\ ~Skipped(file[pos]) /\ FileThrows(file[pos])
    /\ pc' = "idle"
    /\ outcome' = "threw"
    /\ UNCHANGED <<settings, file, env, pos, prior, loads>>

EndOfFile ==
    /\ pc = "file" /\ pos > Len(file)
    /\ pc' = "env" /\ pos' = 1
    /\ UNCHANGED <<settings, file, env, prior, outcome, loads>>

ReadingEnv == pc = "env" /\ pos <= Len(Vars)

UnsetVar ==
    /\ ReadingEnv /\ env[Vars[pos]] = Unset
    /\ pos' = pos + 1
    /\ UNCHANGED <<settings, file, env, pc, prior, outcome, loads>>

ApplyVar ==
    /\ ReadingEnv /\ env[Vars[pos]] # Unset /\ ~EnvThrows(Vars[pos])
    /\ settings' = [settings EXCEPT ![Vars[pos]] = EnvValue(Vars[pos])]
    /\ pos' = pos + 1
    /\ UNCHANGED <<file, env, pc, prior, outcome, loads>>

BadVar ==
    /\ ReadingEnv /\ env[Vars[pos]] # Unset /\ EnvThrows(Vars[pos])
    /\ pc' = "idle"
    /\ outcome' = "threw"
    /\ UNCHANGED <<settings, file, env, pos, prior, loads>>

EndOfEnv ==
    /\ pc = "env" /\ pos > Len(Vars)
    /\ pc' = "idle"
    /\ outcome' = "true"
    /\ UNCHANGED <<settings, file, env, pos, prior, loads>>

load_text_file == SkipLine \/ ApplyLine \/ BadLine \/ EndOfFile
load_env_vars == UnsetVar \/ ApplyVar \/ BadVar \/ EndOfEnv

Next == load_config \/ load_text_file \/ load_env_vars

Spec == Init /\ [][Next]_vars

--------------------------------------------------------------------------------
(* Properties *)

\* What a person means who writes the value in brackets.
Meant(l) ==
    CASE l.key \in Number -> Cast(l.key, Stol[l.val])
      [] l.key \in Flag -> l.val = "YES"
      [] l.key = "SECRET" -> [text |-> l.val, bracket |-> FALSE]

\* The line of the file that settles a key: the last one that is not skipped.
Settles(k, i) ==
    /\ i \in 1..Len(file) /\ file[i].key = k /\ ~Skipped(file[i])
    /\ \A j \in i + 1..Len(file) : file[j].key = k => Skipped(file[j])

\* After a load that returned true, the environment wins over the file, the last
\* line of the file over the earlier ones, and any of them over what was there;
\* and a line means what it says, if it is not indented or is a number
\* (config.cpp:31-100).
AsWritten ==
    outcome = "true" =>
        \A k \in Key :
            /\ env[k] # Unset => settings[k] = EnvValue(k)
            /\ env[k] = Unset =>
                 /\ \A i \in 1..Len(file) :
                        Settles(k, i) /\ (file[i].form = "plain" \/ k \in Number)
                            => settings[k] = Meant(file[i])
                 /\ (~\E i \in 1..Len(file) : Settles(k, i)) => settings[k] = prior[k]

\* "The Webfort plugin has no defined configuration file.  Instead, it uses
\* environment variables" (src/server/README.md:4-5): a load that returns has
\* read the port, the turn time and the capacity from those that are set.
EnvHonoured ==
    outcome \in {"true", "false"} =>
        \A k \in Number : env[k] # Unset => settings[k] = EnvValue(k)
================================================================================
