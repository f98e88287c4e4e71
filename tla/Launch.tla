-------------------------------- MODULE Launch --------------------------------
(***************************************************************************)
(* The serve command: options generated from a settings class              *)
(* (gazebo.ext.cli) that write the environment when they are passed, and   *)
(* the launch of uvicorn with a log configuration (gazebo.ext.uvicorn).    *)
(* One process runs several commands, as a test suite or a shell that      *)
(* embeds them does.  Workers start, end and are restarted at any time     *)
(* while uvicorn runs, and read the environment and the log file then.     *)
(***************************************************************************)
EXTENDS Integers, Sequences, FiniteSets

CONSTANTS
  Fields, Values,
  Settings,      \* settings classes: per field [secret, required, default, prefix, flag, excluded]
  Workers,
  MaxCommands,   \* bound on the commands of the process
  None, Bad      \* no value; a value the option's type refuses

VARIABLES
  fields,        \* the settings class the command documents
  first, env,    \* the environment at first, and now
  passed,        \* per field, what the latest command line that had it gave
  command,       \* [n, phase, todo, check, temp, operator, argv]
  files,         \* temporary log configurations, by the command that wrote them
  workers        \* per worker, what it read when it started, or None

vars == <<fields, first, env, passed, command, files, workers>>

-----------------------------------------------------------------------------
(* Mutant: secrets get an option too. *)
OptionsForAll == {f \in Fields : ~fields[f].excluded}

(* _is_secret, exclude: the fields that get an option.                     *)
Options == {f \in Fields : ~fields[f].secret /\ ~fields[f].excluded}

(* _require_env_prefix, _group_options, _validate_groups: flags are unique *)
(* after renaming, a prefix is given and belongs to one group; a key of    *)
(* exclude or rename names an option, which no secret has.                 *)
GroupsValid ==
  /\ \A f \in Fields : fields[f].prefix # ""
  /\ \A f, g \in Options : fields[f].flag = fields[g].flag => f = g
  /\ \A f \in Fields : fields[f].excluded => ~fields[f].secret

Compose ==
  /\ command.phase = "composing"
  /\ command' = [command EXCEPT !.phase = IF GroupsValid THEN "idle" ELSE "ValueError"]
  /\ UNCHANGED <<fields, first, env, passed, files, workers>>

(* The --log-config arguments in argv: the injected one, a temporary file  *)
(* unless serve_command was given a path; then the author's arguments, then*)
(* the operator's.  click takes the last.                                  *)
Given(log) == IF log = None THEN << >> ELSE <<log>>
Argv(path, author, operator, n) ==
  <<IF path = None THEN <<"temp", n>> ELSE path>> \o Given(author) \o Given(operator)

(* A command line: options with values in the order they were given, and   *)
(* the arguments that only concern the log configuration or the preflight. *)
Invoke ==
  /\ command.phase = "idle" /\ command.n < MaxCommands
  /\ \E k \in 0 .. Cardinality(Options), check \in BOOLEAN, path \in {None, <<"path">>},
        author \in {None, <<"author">>}, operator \in {None, <<"operator">>} :
       \E todo \in [1 .. k -> Options \X (Values \cup {Bad})] :
         /\ \A i, j \in 1 .. k : i # j => todo[i][1] # todo[j][1]
         /\ command' = [n |-> command.n + 1, phase |-> "parsing", todo |-> todo, check |-> check,
                        temp |-> path = None, operator |-> operator,
                        argv |-> Argv(path, author, operator, command.n + 1)]
  /\ UNCHANGED <<fields, first, env, passed, files, workers>>

(* _propagate_to_env, for a value that comes from the command line; those  *)
(* from the environment and defaults are left to the app.                  *)
PassOption ==
  /\ command.phase = "parsing" /\ command.todo # << >> /\ Head(command.todo)[2] # Bad
  /\ LET f == Head(command.todo)[1]  v == Head(command.todo)[2] IN
       env' = [env EXCEPT ![f] = v] /\ passed' = [passed EXCEPT ![f] = v]
  /\ command' = [command EXCEPT !.todo = Tail(@)]
  /\ UNCHANGED <<fields, first, files, workers>>

Missing == {f \in Options : fields[f].required /\ env[f] = None}

(* A usage error: what the options before it wrote stays in the environment.*)
Refuse ==
  /\ command.phase = "parsing"
  /\ IF command.todo # << >> THEN Head(command.todo)[2] = Bad ELSE Missing # {}
  /\ command' = [command EXCEPT !.phase = "idle"]
  /\ UNCHANGED <<fields, first, env, passed, files, workers>>

(* cls(): the environment, or else the field's default.                    *)
Resolve(f) == IF env[f] # None THEN env[f] ELSE fields[f].default
Resolves == \A f \in Fields : fields[f].required => env[f] # None

Parsed == command.phase = "parsing" /\ command.todo = << >> /\ Missing = {}

(* _run_check: no server; it says whether the settings resolve and the     *)
(* application imports.  The exits differ in their status only.            *)
RunCheck ==
  /\ Parsed /\ command.check
  /\ command' = [command EXCEPT !.phase = "idle"]
  /\ UNCHANGED <<fields, first, env, passed, files, workers>>

(* serve writes the file, also where a later --log-config wins.            *)
Serve ==
  /\ Parsed /\ ~command.check
  /\ command' = [command EXCEPT !.phase = "serving"]
  /\ files' = IF command.temp THEN files \cup {<<"temp", command.n>>} ELSE files
  /\ UNCHANGED <<fields, first, env, passed, workers>>

WorkerStarts(w) ==
  /\ command.phase = "serving" /\ workers[w] = None
  /\ workers' = [workers EXCEPT ![w] =
       [settings |-> IF Resolves THEN [f \in Fields |-> Resolve(f)] ELSE None,
        log |-> LET log == command.argv[Len(command.argv)] IN
                IF log[1] = "temp" /\ log \notin files THEN None ELSE log]]
  /\ UNCHANGED <<fields, first, env, passed, command, files>>

WorkerEnds(w) ==
  /\ workers[w] # None
  /\ workers' = [workers EXCEPT ![w] = None]
  /\ UNCHANGED <<fields, first, env, passed, command, files>>

(* uvicorn.main.main returns or raises when its workers are gone; finally. *)
UvicornReturns ==
  /\ command.phase = "serving" /\ \A w \in Workers : workers[w] = None
  /\ command' = [command EXCEPT !.phase = "idle"]
  /\ files' = files \ {<<"temp", command.n>>}
  /\ UNCHANGED <<fields, first, env, passed, workers>>

Init ==
  /\ fields \in Settings
  /\ env \in [Fields -> {None} \cup Values] /\ first = env
  /\ passed = [f \in Fields |-> None]
  /\ command = [n |-> 0, phase |-> "composing", todo |-> << >>, check |-> FALSE,
                temp |-> FALSE, operator |-> None, argv |-> << >>]
  /\ files = {} /\ workers = [w \in Workers |-> None]

Next ==
  \/ Compose \/ Invoke \/ PassOption \/ Refuse \/ RunCheck \/ Serve
  \/ \E w \in Workers : WorkerStarts(w) \/ WorkerEnds(w)
  \/ UvicornReturns

-----------------------------------------------------------------------------
(* Every worker, started or restarted at any moment, reads what the        *)
(* operator passed, else what was in the environment, else the default; a  *)
(* secret only ever comes from the environment, whatever was passed.  An   *)
(* option of an earlier command, one that was refused too, is taken for    *)
(* part of the environment.                                                *)
WorkersSeeWhatWasPassed ==
  \A w \in Workers : workers[w] # None /\ workers[w].settings # None =>
    \A f \in Fields :
      workers[w].settings[f] =
        IF passed[f] # None /\ ~fields[f].secret THEN passed[f]
        ELSE IF first[f] # None THEN first[f] ELSE fields[f].default

(* The log configuration of the operator wins over the author's and the    *)
(* injected one; a worker finds its own whenever it starts, and the        *)
(* temporary files are gone when their command is over.                    *)
LogConfigOutlivesWorkers ==
  /\ \A w \in Workers : workers[w] # None =>
       /\ workers[w].log # None
       /\ command.operator # None => workers[w].log = command.operator
  /\ \A p \in files : command.phase = "serving" /\ p[2] = command.n
=============================================================================
