------------------------------ MODULE CloudConfig ------------------------------
(***************************************************************************)
(* How the server comes to its configuration: LoadConfig picks environment  *)
(* files and reads them line by line into the environment of the process,   *)
(* off which it then takes every setting.  A start that fails half way has  *)
(* no configuration.                                                        *)
(*                                                                          *)
(* A line is what the parser makes of it: ignored (blank, a comment), bad   *)
(* (no '=', no variable name, an unterminated quote, too long), or a value  *)
(* for a variable.  A path is absolute and clean.  Nul is a value with the  *)
(* character U+0000, which no environment can hold.                         *)
(***************************************************************************)
EXTENDS Integers, Sequences

CONSTANTS
  Key,            \* environment variables
  Text,           \* their values
  Path,           \* files that may be named or tried
  Empty,          \* the empty text, the value of a variable that is not set
  Blank,          \* a text of spaces
  Nul,
  Missing,        \* no such file
  Unreadable,     \* a directory, or a file that cannot be opened
  Candidates,     \* the paths that are tried when none is named
  Disks,          \* the contents of the paths
  Environments,   \* the environments that the process is started with
  Flags           \* the values of -env-file

Line == [kind: {"ignored", "bad"}] \cup [kind: {"set"}, key: Key, value: Text]
NoFile == {Missing, Unreadable}

ASSUME ConfigAssumption ==
  /\ {Empty, Blank} \subseteq Text /\ Path \subseteq Text \ {Empty, Blank}
  /\ "CLOUD_API_ENV_FILE" \in Key
  /\ Candidates \in Seq(Path)
  /\ Disks \subseteq [Path -> NoFile \cup Seq(Line)]
  /\ Environments \subseteq [Key -> Text]
  /\ \A e \in Environments : e["CLOUD_API_ENV_FILE"] \in Path \cup {Empty, Blank}
  /\ Flags \subseteq Path \cup {Empty, Blank}

VARIABLES
  disk, given, flag,  \* what the process finds: files, environment, flag
  env,                \* its environment now
  stage,
  paths, required,    \* the files to read, and whether they must exist
  at, line,           \* the path and the line that are next
  seen,               \* the paths that were turned to
  current,            \* the report about the file being read
  loaded, missing     \* EnvFileReport

found == <<disk, given, flag>>
plan == <<paths, required>>
place == <<at, line, seen>>
report == <<current, loaded, missing>>
configVars == <<found, env, stage, plan, place, report>>

Report == [path: Path, set: SUBSET Key, preserved: SUBSET Key]
NoReport == [path |-> Empty, set |-> {}, preserved |-> {}]

ConfigTypeOK ==
  /\ disk \in Disks /\ given \in Environments /\ flag \in Flags
  /\ env \in [Key -> Text]
  /\ stage \in {"start", "files", "lines", "done", "failed"}
  /\ paths \in Seq(Path) /\ required \in BOOLEAN
  /\ at \in Nat \ {0} /\ line \in Nat \ {0}
  /\ seen \subseteq Path
  /\ current \in Report \cup {NoReport}
  /\ loaded \in Seq(Report) /\ missing \in Seq(Path)

ConfigInit ==
  /\ disk \in Disks /\ given \in Environments /\ flag \in Flags
  /\ env = given
  /\ stage = "start"
  /\ paths = <<>> /\ required = FALSE
  /\ at = 1 /\ line = 1 /\ seen = {}
  /\ current = NoReport /\ loaded = <<>> /\ missing = <<>>

Fail == /\ stage' = "failed"
        /\ UNCHANGED <<found, env, plan, place, report>>
-----------------------------------------------------------------------------
(* loadEnvFiles *)

Names(text) == text \notin {Empty, Blank}

\* The flag, then the variable, then the places that are tried.
ChooseFiles ==
  LET named == IF Names(flag) THEN flag ELSE env["CLOUD_API_ENV_FILE"]
  IN /\ stage = "start"
     /\ stage' = "files"
     /\ paths' = IF Names(named) THEN <<named>> ELSE Candidates
     /\ required' = Names(named)
     /\ UNCHANGED <<found, env, place, report>>

\* loadEnvFileList: a path that comes again is passed over.
SkipRepeated ==
  /\ stage = "files" /\ at <= Len(paths) /\ paths[at] \in seen
  /\ at' = at + 1
  /\ UNCHANGED <<found, env, stage, plan, line, seen, report>>

\* The next path that was not turned to before.
Turn == /\ stage = "files" /\ at <= Len(paths) /\ paths[at] \notin seen
        /\ seen' = seen \cup {paths[at]}

\* Variant, never used by ConfigNext: a file that was named may be missing.
SkipAnyMissing ==
  /\ Turn /\ disk[paths[at]] = Missing
  /\ at' = at + 1
  /\ missing' = Append(missing, paths[at])
  /\ UNCHANGED <<found, env, stage, plan, line, current, loaded>>

SkipMissing ==
  /\ Turn /\ disk[paths[at]] = Missing /\ ~ required
  /\ at' = at + 1
  /\ missing' = Append(missing, paths[at])
  /\ UNCHANGED <<found, env, stage, plan, line, current, loaded>>

\* A file that was named is missing, or a path is a directory or cannot be opened.
RefuseFile ==
  /\ stage = "files" /\ at <= Len(paths) /\ paths[at] \notin seen
  /\ \/ disk[paths[at]] = Missing /\ required
     \/ disk[paths[at]] = Unreadable
  /\ Fail

OpenFile ==
  /\ Turn /\ disk[paths[at]] \notin NoFile
  /\ stage' = "lines" /\ line' = 1
  /\ current' = [NoReport EXCEPT !.path = paths[at]]
  /\ UNCHANGED <<found, env, plan, at, loaded, missing>>
-----------------------------------------------------------------------------
(* loadEnvFile *)

File == disk[paths[at]]
Reads(kind) == stage = "lines" /\ line <= Len(File) /\ File[line].kind = kind
NextLine == /\ line' = line + 1
            /\ UNCHANGED <<found, stage, plan, at, seen, loaded, missing>>

IgnoreLine == Reads("ignored") /\ NextLine /\ UNCHANGED <<env, current>>

RefuseLine == Reads("bad") /\ Fail

\* The environment or an earlier line has a value.
PreserveKey ==
  /\ Reads("set") /\ env[File[line].key] # Empty
  /\ current' = [current EXCEPT !.preserved = @ \cup {File[line].key}]
  /\ NextLine /\ UNCHANGED env

\* Variant, never used by ConfigNext: whatever the process was not started with is set.
SetAnyKey ==
  /\ Reads("set") /\ given[File[line].key] = Empty /\ File[line].value # Nul
  /\ env' = [env EXCEPT ![File[line].key] = File[line].value]
  /\ current' = [current EXCEPT !.set = @ \cup {File[line].key}]
  /\ NextLine

\* Variant, never used by ConfigNext: only variables that were not set are reported.
SetKeyQuietly ==
  /\ Reads("set") /\ env[File[line].key] = Empty /\ File[line].value # Nul
  /\ env' = [env EXCEPT ![File[line].key] = File[line].value]
  /\ current' = [current EXCEPT !.preserved = @ \cup {File[line].key}]
  /\ NextLine

SetKey ==
  /\ Reads("set") /\ env[File[line].key] = Empty /\ File[line].value # Nul
  /\ env' = [env EXCEPT ![File[line].key] = File[line].value]
  /\ current' = [current EXCEPT !.set = @ \cup {File[line].key}]
  /\ NextLine

\* os.Setenv returns an error.
RefuseValue ==
  /\ Reads("set") /\ env[File[line].key] = Empty /\ File[line].value = Nul
  /\ Fail

CloseFile ==
  /\ stage = "lines" /\ line > Len(File)
  /\ stage' = "files" /\ at' = at + 1
  /\ loaded' = Append(loaded, current)
  /\ current' = NoReport
  /\ UNCHANGED <<found, env, plan, line, seen, missing>>

\* All files are read: the settings are taken off the environment as it is now.
Resolve ==
  /\ stage = "files" /\ at > Len(paths)
  /\ stage' = "done"
  /\ UNCHANGED <<found, env, plan, place, report>>

ConfigNext ==
  \/ ChooseFiles \/ SkipRepeated \/ SkipMissing \/ RefuseFile \/ OpenFile
  \/ IgnoreLine \/ RefuseLine \/ PreserveKey \/ SetKey \/ RefuseValue
  \/ CloseFile \/ Resolve

ConfigSpec == ConfigInit /\ [][ConfigNext]_configVars
-----------------------------------------------------------------------------
(* Properties *)

\* The lines that can give a variable a value; a path that comes again is not
\* read again, and a path without a file has no lines.
Lines(i) == IF disk[paths[i]] \in NoFile THEN <<>> ELSE disk[paths[i]]
First(i) == \A j \in 1..(i - 1) : paths[j] # paths[i]
Gives(i, l, key) == /\ First(i)
                    /\ Lines(i)[l].kind = "set"
                    /\ Lines(i)[l].key = key /\ Lines(i)[l].value # Empty
Before(i, l, j, m) == i < j \/ (i = j /\ l <= m)

\* No file overrides what the process was started with.  A variable that was
\* empty has the value of the first line that gives one, in the order of the
\* paths, or stays empty if there is none.
Precedence(key) ==
  IF given[key] # Empty THEN env[key] = given[key]
  ELSE \/ /\ env[key] = Empty
          /\ \A i \in DOMAIN paths : \A l \in DOMAIN Lines(i) : ~ Gives(i, l, key)
       \/ \E i \in DOMAIN paths : \E l \in DOMAIN Lines(i) :
            /\ Gives(i, l, key) /\ env[key] = Lines(i)[l].value
            /\ \A j \in DOMAIN paths : \A m \in DOMAIN Lines(j) :
                 Gives(j, m, key) => Before(i, l, j, m)

\* Which file wins depends on nothing but the flag, the variable, the order of the
\* paths and the lines: LoadConfig ends with every variable as the precedence says.
FirstValueWins == stage = "done" => \A key \in Key : Precedence(key)

\* docs/product_spec_v1.3.md lets the flag or CLOUD_API_ENV_FILE decide to which
\* database the process connects: then that file was read and nothing else, to its
\* last line and without a bad one, the flag beats the variable, and a file cannot
\* name another one.
NamedFileDecides ==
  LET named == IF Names(flag) THEN flag ELSE given["CLOUD_API_ENV_FILE"]
  IN stage = "done" /\ Names(named) =>
       /\ disk[named] \notin NoFile
       /\ \A l \in DOMAIN disk[named] : disk[named][l].kind # "bad"
       /\ Len(loaded) = 1 /\ loaded[1].path = named
       /\ missing = <<>>

\* The report explains the environment: a variable that differs from the one given
\* has a value of the last file that is reported to have set it, and of no other.
ReportExplains ==
  stage = "done" => \A key \in Key :
    IF env[key] = given[key]
    THEN given[key] # Empty => \A i \in DOMAIN loaded : key \notin loaded[i].set
    ELSE \E i \in DOMAIN loaded :
           /\ key \in loaded[i].set
           /\ \A j \in DOMAIN loaded : key \in loaded[j].set => j <= i
           /\ \E l \in DOMAIN disk[loaded[i].path] :
                disk[loaded[i].path][l] = [kind |-> "set", key |-> key, value |-> env[key]]
=============================================================================
