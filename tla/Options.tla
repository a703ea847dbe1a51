------------------------------ MODULE Options ------------------------------
(***************************************************************************)
(* The command line: main of src/src/Main.cpp from the option loop to the  *)
(* branch of init on the script options.                                   *)
(*                                                                         *)
(* strstr finds an option anywhere in an argument, so that one argument,   *)
(* the path of the program included, may hold several.  An argument is a   *)
(* record: word, what stricmp compares, and text, the function from the    *)
(* options found in it to what follows each: atol's number or a path.      *)
(***************************************************************************)
EXTENDS Integers, Sequences

CONSTANTS
    Argument,       \* bound: the arguments considered
    MaxArg,         \* bound: arguments on a command line
    UintSize        \* 2^w for w-bit counts

Help  == {"-help", "/help", "help"}
Flood == {"-flood", "-f"}

\* The else-if chain, in its order: what is looked for and what it sets.
Chain == <<
    [option |-> "-taskcount=",        sets |-> "task_count"],
    [option |-> "-c=",                sets |-> "task_count"],
    [option |-> "-task_min_running=", sets |-> "task_min_running"],
    [option |-> "-mc=",               sets |-> "task_min_running"],
    [option |-> "-task_add_once=",    sets |-> "task_add_once"],
    [option |-> "-ac=",               sets |-> "task_add_once"],
    [option |-> "-thread=",           sets |-> "thread_num"],
    [option |-> "-tn=",               sets |-> "thread_num"],
    [option |-> "-tcc=",              sets |-> "script_file"],
    [option |-> "-libpath=",          sets |-> "libpath"] >>

Path == {"script_file", "libpath"}

ASSUME OptionsAssumption ==
    /\ MaxArg \in Nat
    /\ UintSize \in Nat /\ UintSize > 10

\* stricmp compares a whole argument, in which strstr finds no option then;
\* atol's long has the width of the counts.
ASSUME ArgumentAssumption ==
    \A arg \in Argument :
        /\ arg.word \in Flood \cup Help => DOMAIN arg.text = {}
        /\ \A b \in DOMAIN Chain :
              Chain[b].option \in DOMAIN arg.text /\ Chain[b].sets \notin Path =>
                  arg.text[Chain[b].option] \in 1 - UintSize .. UintSize - 1

VARIABLES
    main_config,    \* the settings
    argv,           \* the arguments read so far
    main_at         \* where main is: see Place

argVars == <<main_config, argv, main_at>>

\* "http", "script": past the branch of init.  "help": main has returned 1.
MainAt == {"options", "init", "http", "script", "help"}

\* The initialiser of main_config.
Default ==
    [flood_begin |-> FALSE, task_count |-> UintSize - 1, task_min_running |-> 10,
     task_add_once |-> 1, thread_num |-> 3, script_file |-> "", libpath |-> ""]

OptionsInit == main_config = Default /\ argv = <<>> /\ main_at = "options"
----------------------------------------------------------------------------
\* The branches of the chain whose option the argument holds.
Matching(arg) == {b \in DOMAIN Chain : Chain[b].option \in DOMAIN arg.text}

\* The last branch that matches.
SlipTaken(arg) == CHOOSE b \in Matching(arg) : \A d \in Matching(arg) : d <= b

\* The branch taken: the first that matches.
Taken(arg) == CHOOSE b \in Matching(arg) : \A d \in Matching(arg) : b <= d

\* What a branch stores: a count becomes an unsigned int.
Stored(field, text) == IF field \in Path THEN text ELSE text % UintSize

Store(arg) ==
    LET branch == Chain[Taken(arg)]
    IN  main_config' = [main_config EXCEPT ![branch.sets] =
                            Stored(branch.sets, arg.text[branch.option])]

\* One turn of the loop.
ReadArgument(arg) ==
    /\ main_at = "options"
    /\ argv' = Append(argv, arg)
    /\ \/ /\ Matching(arg) # {}
          /\ Store(arg)
          /\ UNCHANGED main_at
       \/ /\ arg.word \in Flood
          /\ main_config' = [main_config EXCEPT !.flood_begin = TRUE]
          /\ UNCHANGED main_at
       \/ /\ arg.word \in Help
          /\ main_at' = "help"
          /\ UNCHANGED main_config
       \/ /\ Matching(arg) = {} /\ arg.word \notin Flood \cup Help
          /\ UNCHANGED <<main_config, main_at>>

OrElse(n, default) == IF n <= 0 THEN default ELSE n

Fallback == [task_add_once |-> 1, task_min_running |-> 1, thread_num |-> 3]

\* After the loop three of the counts get a default if they are zero.
EndOfOptions ==
    /\ main_at = "options"
    /\ main_at' = "init"
    /\ main_config' = [field \in DOMAIN main_config |->
                            IF field \in DOMAIN Fallback
                            THEN OrElse(main_config[field], Fallback[field])
                            ELSE main_config[field]]
    /\ UNCHANGED argv

\* && for ||.
SlipChooseMode ==
    /\ main_at = "init"
    /\ main_at' = IF main_config.script_file = "" /\ main_config.libpath = ""
                  THEN "http" ELSE "script"
    /\ UNCHANGED <<main_config, argv>>

\* init: the built-in test unless both paths are there.
ChooseMode ==
    /\ main_at = "init"
    /\ main_at' = IF main_config.script_file = "" \/ main_config.libpath = ""
                  THEN "http" ELSE "script"
    /\ UNCHANGED <<main_config, argv>>

OptionsNext ==
    \/ \E arg \in Argument : Len(argv) < MaxArg /\ ReadArgument(arg)
    \/ EndOfOptions
    \/ ChooseMode

OptionsSpec == OptionsInit /\ [][OptionsNext]_argVars
----------------------------------------------------------------------------
\* The branch that arg takes, if it sets the field.
SetBy(arg, field) ==
    {b \in DOMAIN Chain :
        /\ Chain[b].sets = field
        /\ Chain[b].option \in DOMAIN arg.text
        /\ \A d \in 1 .. b - 1 : Chain[d].option \notin DOMAIN arg.text}

\* What the last argument that sets a field gives for it; {} if there is none.
Asked(field) ==
    UNION {{argv[n].text[Chain[b].option] : b \in SetBy(argv[n], field)} :
               n \in {n \in DOMAIN argv :
                         \A m \in n + 1 .. Len(argv) : SetBy(argv[m], field) = {}}}

\* What a count of zero becomes.
Zero == [task_count |-> 0, task_min_running |-> 1, task_add_once |-> 1, thread_num |-> 3]

OptionsRead == main_at \in {"init", "http", "script"}

\* Of the arguments that set a count, under either of its names, the last one
\* counts, and an argument that holds several options sets one thing; zero
\* gives a default, and a negative number becomes a huge one.
CountsAsAsked ==
    OptionsRead =>
        \A field \in DOMAIN Zero :
            /\ Asked(field) = {} => main_config[field] = Default[field]
            /\ \A n \in Asked(field) :
                  main_config[field] =
                      CASE n > 0 -> n
                        [] n < 0 -> UintSize + n
                        [] n = 0 -> Zero[field]

\* A script is compiled only when the last -tcc and the last -libpath both
\* name a path; in all other cases the built-in test runs.
ScriptOnlyIfBoth ==
    main_at \in {"http", "script"} =>
        (main_at = "script" <=> \A field \in Path : Asked(field) \notin {{}, {""}})
=============================================================================
