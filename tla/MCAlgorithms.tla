---------------------------- MODULE MCAlgorithms ---------------------------
(***************************************************************************)
(* Small instances of Options and Hash for TLC.  The two have nothing to   *)
(* do with each other; a behaviour is one of either.                       *)
(***************************************************************************)
EXTENDS Options, Hash

NoText == [o \in {} |-> ""]

WordArguments == {[word |-> w, text |-> NoText] : w \in {"-f", "-flood", "-help", "/help", "help", ""}}

Texts(b) == IF Chain[b].sets \in Path THEN {"", "path"} ELSE {-1, 0, b}

\* Arguments that hold one option ...
OneOption ==
    UNION {{[word |-> "", text |-> [o \in {Chain[b].option} |-> x]] : x \in Texts(b)} :
               b \in DOMAIN Chain}

\* ... or two.
TwoOptions ==
    {[word |-> "", text |-> [o \in {Chain[b].option, Chain[d].option} |->
                                 LET e == IF o = Chain[b].option THEN b ELSE d
                                 IN  IF Chain[e].sets \in Path THEN "both" ELSE 10 + (e % 2)]] :
         b, d \in {1, 4, 6, 9, 10}}

SomeArguments == WordArguments \cup OneOption \cup TwoOptions

MCInit == OptionsInit /\ HashInit

MCNext ==
    \/ OptionsNext /\ hash = "NULL" /\ hash_at = "idle" /\ UNCHANGED hashVars
    \/ HashNext /\ argv = <<>> /\ main_at = "options" /\ UNCHANGED argVars

MCSpec == MCInit /\ [][MCNext]_<<argVars, hashVars>>
=============================================================================
