---------------------------- MODULE OptionsProofs --------------------------
(***************************************************************************)
(* The settings are what the command line asked for, for every set of      *)
(* arguments, every number of them and every width of the counts.          *)
(***************************************************************************)
EXTENDS Options, SequenceTheorems, TLAPS

\* The fields an option can set.
Counts == {"task_count", "task_min_running", "task_add_once", "thread_num"}
Sets   == Counts \cup Path

\* A field has its default until it is asked for, and then what the last
\* request stores.
Follows(field) ==
    \/ Asked(field) = {} /\ main_config[field] = Default[field]
    \/ \E x : Asked(field) = {x} /\ main_config[field] = Stored(field, x)

\* A number asked for is one that atol can return.
LongAsked(field) == \A x \in Asked(field) : x \in 1 - UintSize .. UintSize - 1

OptionsInv ==
    /\ argv \in Seq(Argument)
    /\ DOMAIN main_config = DOMAIN Default
    /\ \A field \in Counts : LongAsked(field)
    /\ main_at = "options" => \A field \in Counts : Follows(field)
    /\ main_at \in {"options", "init"} => \A field \in Path : Follows(field)
    /\ CountsAsAsked
    /\ ScriptOnlyIfBoth

USE OptionsAssumption, ArgumentAssumption

\* What the chain and the records hold.
LEMMA ChainShape ==
    /\ DOMAIN Chain = 1 .. 10
    /\ \A b \in DOMAIN Chain : Chain[b].sets \in Sets
    /\ Counts \cap Path = {}
    /\ DOMAIN Zero = Counts
    /\ Sets \subseteq DOMAIN Default
    /\ DOMAIN Fallback \subseteq Counts
<1>1. DOMAIN Chain = 1 .. 10
  BY DEF Chain
<1>2. \A b \in 1 .. 10 : Chain[b].sets \in Sets
  BY DEF Chain, Sets, Counts, Path
<1> QED
  BY <1>1, <1>2 DEF Counts, Path, Sets, Zero, Default, Fallback

\* An argument that matches has a first branch.
LEMMA TakenIsFirst ==
    ASSUME NEW arg, Matching(arg) # {}
    PROVE  /\ Taken(arg) \in Matching(arg)
           /\ \A d \in Matching(arg) : Taken(arg) <= d
<1> DEFINE M == Matching(arg)
<1>1. M \subseteq 1 .. 10
  BY ChainShape DEF Matching
<1>2. \E b \in M : \A d \in M : b <= d
  <2> DEFINE Least(b) == b \in M /\ \A d \in 1 .. b - 1 : d \notin M
  <2>1. \E b \in 1 .. 10 : Least(b)
    <3> SUFFICES ASSUME \A b \in 1 .. 10 : ~Least(b) PROVE FALSE
      OBVIOUS
    <3>1. 1 \notin M
      OBVIOUS
    <3>2. 2 \notin M
      BY <3>1
    <3>3. 3 \notin M
      BY <3>1, <3>2
    <3>4. 4 \notin M
      BY <3>1, <3>2, <3>3
    <3>5. 5 \notin M
      BY <3>1, <3>2, <3>3, <3>4
    <3>6. 6 \notin M
      BY <3>1, <3>2, <3>3, <3>4, <3>5
    <3>7. 7 \notin M
      BY <3>1, <3>2, <3>3, <3>4, <3>5, <3>6
    <3>8. 8 \notin M
      BY <3>1, <3>2, <3>3, <3>4, <3>5, <3>6, <3>7
    <3>9. 9 \notin M
      BY <3>1, <3>2, <3>3, <3>4, <3>5, <3>6, <3>7, <3>8
    <3>10. 10 \notin M
      BY <3>1, <3>2, <3>3, <3>4, <3>5, <3>6, <3>7, <3>8, <3>9
    <3> QED
      BY <1>1, <3>1, <3>2, <3>3, <3>4, <3>5, <3>6, <3>7, <3>8, <3>9, <3>10
  <2> QED
    BY <1>1, <2>1
<1> QED
  BY <1>2 DEF Taken

\* SetBy says of an argument what Taken does.
LEMMA SetByTaken ==
    ASSUME NEW arg, NEW field
    PROVE  /\ Matching(arg) = {} => SetBy(arg, field) = {}
           /\ Matching(arg) # {} =>
                SetBy(arg, field) = IF Chain[Taken(arg)].sets = field THEN {Taken(arg)} ELSE {}
<1>1. CASE Matching(arg) = {}
  BY <1>1 DEF Matching, SetBy
<1>2. CASE Matching(arg) # {}
  <2>1. /\ Taken(arg) \in Matching(arg)
        /\ \A d \in Matching(arg) : Taken(arg) <= d
    BY <1>2, TakenIsFirst
  <2>2. Matching(arg) \subseteq 1 .. 10 /\ DOMAIN Chain = 1 .. 10
    BY ChainShape DEF Matching
  <2>3. \A b \in DOMAIN Chain :
            b = Taken(arg) <=> /\ Chain[b].option \in DOMAIN arg.text
                               /\ \A d \in 1 .. b - 1 : Chain[d].option \notin DOMAIN arg.text
    BY <2>1, <2>2 DEF Matching
  <2>4. Taken(arg) \in DOMAIN Chain
    BY <2>1, <2>2
  <2> QED
    BY <1>2, <2>3, <2>4 DEF SetBy
<1> QED
  BY <1>1, <1>2

\* One more argument: a field it sets is asked for as it says, every other
\* one as before.
LEMMA AskedAppend ==
    ASSUME argv \in Seq(Argument), NEW arg \in Argument, argv' = Append(argv, arg),
           NEW field
    PROVE  Asked(field)' = IF SetBy(arg, field) = {} THEN Asked(field)
                           ELSE {arg.text[Chain[b].option] : b \in SetBy(arg, field)}
<1> DEFINE L == Len(argv)
<1>1. /\ L \in Nat /\ Len(argv') = L + 1
      /\ DOMAIN argv = 1 .. L /\ DOMAIN argv' = 1 .. L + 1
      /\ \A n \in 1 .. L : argv'[n] = argv[n]
      /\ argv'[L + 1] = arg
  OBVIOUS
<1> DEFINE Last(n)  == \A m \in n + 1 .. L : SetBy(argv[m], field) = {}
           Last1(n) == \A m \in n + 1 .. L + 1 : SetBy(argv'[m], field) = {}
           Says(n)  == {argv[n].text[Chain[b].option] : b \in SetBy(argv[n], field)}
           Says1(n) == {argv'[n].text[Chain[b].option] : b \in SetBy(argv'[n], field)}
<1>2. /\ \A x : x \in Asked(field) <=> \E n \in 1 .. L : Last(n) /\ x \in Says(n)
      /\ \A x : x \in Asked(field)' <=> \E n \in 1 .. L + 1 : Last1(n) /\ x \in Says1(n)
  <2>1. /\ Asked(field) = UNION {Says(n) : n \in {n \in 1 .. L : Last(n)}}
        /\ Asked(field)' = UNION {Says1(n) : n \in {n \in 1 .. L + 1 : Last1(n)}}
    BY <1>1, Zenon DEF Asked
  <2> HIDE DEF L, Last, Last1, Says, Says1
  <2> QED
    BY <2>1
<1>3. \A n \in 1 .. L : Says1(n) = Says(n)
  BY <1>1
<1>4. Says1(L + 1) = {arg.text[Chain[b].option] : b \in SetBy(arg, field)}
  BY <1>1
<1>5. Last1(L + 1)
  BY <1>1
<1>6. \A n \in 1 .. L : Last1(n) <=> Last(n) /\ SetBy(arg, field) = {}
  <2> SUFFICES ASSUME NEW n \in 1 .. L
               PROVE  Last1(n) <=> Last(n) /\ SetBy(arg, field) = {}
    OBVIOUS
  <2>1. \A m \in n + 1 .. L + 1 : m \in n + 1 .. L \/ m = L + 1
    BY <1>1
  <2>2. \A m \in n + 1 .. L : m \in 1 .. L /\ m \in n + 1 .. L + 1
    BY <1>1
  <2>3. L + 1 \in n + 1 .. L + 1
    BY <1>1
  <2> QED
    BY <1>1, <2>1, <2>2, <2>3
<1>7. \A n : n \in 1 .. L + 1 <=> n \in 1 .. L \/ n = L + 1
  BY <1>1
<1> HIDE DEF L, Last, Last1, Says, Says1
<1>8. CASE SetBy(arg, field) = {}
  <2>1. Says1(L + 1) = {}
    BY <1>4, <1>8
  <2>2. \A x : x \in Asked(field)' <=> x \in Asked(field)
    BY <1>2, <1>3, <1>6, <1>7, <1>8, <2>1
  <2>3. Asked(field)' = Asked(field)
    BY <2>2
  <2> QED
    BY <1>8, <2>3
<1>9. CASE SetBy(arg, field) # {}
  <2>1. \A x : x \in Asked(field)' <=> x \in Says1(L + 1)
    BY <1>2, <1>5, <1>6, <1>7, <1>9
  <2> QED
    BY <1>4, <1>9, <2>1
<1> QED
  BY <1>8, <1>9
----------------------------------------------------------------------------
\* At first nothing is asked for.
LEMMA InitInv == OptionsInit => OptionsInv
<1> SUFFICES ASSUME OptionsInit PROVE OptionsInv
  OBVIOUS
<1>1. argv = <<>> /\ main_config = Default /\ main_at = "options"
  BY DEF OptionsInit
<1>2. \A field : Asked(field) = {}
  BY <1>1 DEF Asked
<1> QED
  BY <1>1, <1>2
  DEF OptionsInv, LongAsked, Follows, CountsAsAsked, ScriptOnlyIfBoth, OptionsRead

\* An argument that takes a branch gives its field what it says; any other
\* changes no field that can be asked for.
LEMMA ReadInv ==
    ASSUME OptionsInv, NEW arg \in Argument, ReadArgument(arg)
    PROVE  OptionsInv'
<1>1. /\ argv \in Seq(Argument) /\ argv' = Append(argv, arg) /\ main_at = "options"
      /\ main_at' \in {"options", "help"}
  BY DEF OptionsInv, ReadArgument
<1>2. argv' \in Seq(Argument)
  BY <1>1
<1>3. CountsAsAsked' /\ ScriptOnlyIfBoth'
  BY <1>1 DEF CountsAsAsked, ScriptOnlyIfBoth, OptionsRead
<1>4. \A field \in Sets : Follows(field)
  BY <1>1 DEF OptionsInv, Sets
<1>5. CASE Matching(arg) = {}
  <2>1. \A field : Asked(field)' = Asked(field)
    BY <1>1, <1>5, SetByTaken, AskedAppend
  <2>2. /\ DOMAIN main_config' = DOMAIN main_config
        /\ \A field \in Sets : main_config'[field] = main_config[field]
    <3>1. \A field \in Sets : field \in DOMAIN main_config /\ field # "flood_begin"
      BY ChainShape DEF OptionsInv, Sets, Counts, Path
    <3>2. \/ main_config' = main_config
          \/ main_config' = [main_config EXCEPT !["flood_begin"] = TRUE]
      BY <1>5 DEF ReadArgument
    <3>3. CASE main_config' = main_config
      BY <3>3
    <3>4. CASE main_config' = [main_config EXCEPT !["flood_begin"] = TRUE]
      <4>1. DOMAIN main_config' = DOMAIN main_config
        BY <3>4
      <4>2. \A field \in DOMAIN main_config :
                field # "flood_begin" => main_config'[field] = main_config[field]
        BY <3>4
      <4> QED
        BY <3>1, <4>1, <4>2
    <3> QED
      BY <3>2, <3>3, <3>4
  <2>3. \A field \in Sets : Follows(field)'
    BY <1>4, <2>1, <2>2 DEF Follows
  <2>4. \A field \in Counts : LongAsked(field)'
    BY <2>1 DEF OptionsInv, LongAsked
  <2> QED
    BY <1>2, <1>3, <2>2, <2>3, <2>4 DEF OptionsInv, Sets
<1>6. CASE Matching(arg) # {}
  <2> DEFINE b == Taken(arg)
             f == Chain[b].sets
             x == arg.text[Chain[b].option]
  <2>1. /\ b \in DOMAIN Chain /\ Chain[b].option \in DOMAIN arg.text
    BY <1>6, TakenIsFirst DEF Matching
  <2>2. f \in Sets
    BY <2>1, ChainShape
  <2>3. main_config' = [main_config EXCEPT ![f] = Stored(f, x)]
    <3>1. arg.word \notin Flood \cup Help
      BY <2>1
    <3>2. Store(arg)
      BY <1>6, <3>1 DEF ReadArgument
    <3> QED
      BY <3>2 DEF Store
  <2>4. /\ Asked(f)' = {x}
        /\ \A field : field # f => Asked(field)' = Asked(field)
    <3>1. SetBy(arg, f) = {b} /\ \A field : field # f => SetBy(arg, field) = {}
      BY <1>6, SetByTaken
    <3>2. {arg.text[Chain[d].option] : d \in SetBy(arg, f)} = {x}
      BY <3>1
    <3>3. Asked(f)' = {x}
      BY <1>1, <3>1, <3>2, AskedAppend
    <3>4. \A field : field # f => Asked(field)' = Asked(field)
      BY <1>1, <3>1, AskedAppend
    <3> QED
      BY <3>3, <3>4
  <2>5. f \in Counts => x \in 1 - UintSize .. UintSize - 1
    BY <2>1, ChainShape
  <2> HIDE DEF b, f, x
  <2>6. f \in DOMAIN main_config
    BY <2>2, ChainShape DEF OptionsInv
  <2>7. /\ main_config'[f] = Stored(f, x)
        /\ \A field \in DOMAIN main_config : field # f => main_config'[field] = main_config[field]
        /\ DOMAIN main_config' = DOMAIN main_config
    BY <2>3, <2>6
  <2>8. \A field \in Sets : Follows(field)'
    <3> SUFFICES ASSUME NEW field \in Sets PROVE Follows(field)'
      OBVIOUS
    <3>1. CASE field = f
      BY <2>4, <2>7, <3>1 DEF Follows
    <3>2. CASE field # f
      <4>1. main_config'[field] = main_config[field]
        BY <2>7, <3>2, ChainShape DEF OptionsInv
      <4> QED
        BY <1>4, <2>4, <3>2, <4>1 DEF Follows
    <3> QED
      BY <3>1, <3>2
  <2>9. \A field \in Counts : LongAsked(field)'
    BY <2>4, <2>5 DEF OptionsInv, LongAsked
  <2> QED
    BY <1>2, <1>3, <2>7, <2>8, <2>9 DEF OptionsInv, Sets
<1> QED
  BY <1>5, <1>6

\* The counts are unsigned when they are compared with zero.
LEMMA EndInv ==
    ASSUME OptionsInv, EndOfOptions
    PROVE  OptionsInv'
<1>1. /\ main_at = "options" /\ main_at' = "init" /\ argv' = argv
      /\ DOMAIN main_config' = DOMAIN main_config
      /\ \A field \in DOMAIN main_config :
            main_config'[field] = IF field \in DOMAIN Fallback
                                  THEN OrElse(main_config[field], Fallback[field])
                                  ELSE main_config[field]
  BY DEF EndOfOptions
<1>2. \A field : Asked(field)' = Asked(field)
  BY <1>1 DEF Asked
<1>3. \A field \in Path : Follows(field)'
  <2> SUFFICES ASSUME NEW field \in Path PROVE Follows(field)'
    OBVIOUS
  <2>1. field \in DOMAIN main_config /\ field \notin DOMAIN Fallback /\ Follows(field)
    BY <1>1, ChainShape DEF OptionsInv, Sets
  <2> QED
    BY <1>1, <1>2, <2>1 DEF Follows
<1>4. CountsAsAsked'
  <2> SUFFICES ASSUME NEW field \in Counts
               PROVE  /\ Asked(field) = {} => main_config'[field] = Default[field]
                      /\ \A n \in Asked(field) :
                            main_config'[field] =
                                CASE n > 0 -> n
                                  [] n < 0 -> UintSize + n
                                  [] n = 0 -> Zero[field]
    BY <1>2, ChainShape DEF CountsAsAsked
  <2>1. /\ field \in DOMAIN main_config /\ field \notin Path
        /\ Follows(field) /\ LongAsked(field)
    BY <1>1, ChainShape DEF OptionsInv, Sets
  <2>2. CASE Asked(field) = {} /\ main_config[field] = Default[field]
    <3>1. field \in DOMAIN Fallback => ~(Default[field] <= 0)
      <4>1. Default["task_add_once"] = 1 /\ Default["task_min_running"] = 10
            /\ Default["thread_num"] = 3
        BY DEF Default
      <4>2. DOMAIN Fallback = {"task_add_once", "task_min_running", "thread_num"}
        BY DEF Fallback
      <4> QED
        BY <4>1, <4>2
    <3> QED
      BY <1>1, <2>1, <2>2, <3>1 DEF OrElse
  <2>3. ASSUME NEW n, Asked(field) = {n}, main_config[field] = Stored(field, n)
        PROVE  main_config'[field] = CASE n > 0 -> n
                                       [] n < 0 -> UintSize + n
                                       [] n = 0 -> Zero[field]
    <3>1. n \in Int /\ 1 - UintSize <= n /\ n <= UintSize - 1
      BY <2>1, <2>3 DEF LongAsked
    <3>2. main_config[field] = n % UintSize
      BY <2>1, <2>3 DEF Stored
    <3>3. main_config[field] = IF n < 0 THEN UintSize + n ELSE n
      BY <3>1, <3>2
    <3>4. field \in DOMAIN Fallback => Fallback[field] = Zero[field]
      BY DEF Fallback, Zero
    <3>5. field \notin DOMAIN Fallback => Zero[field] = 0
      BY <2>1 DEF Fallback, Zero, Counts
    <3>6. CASE n = 0
      BY <1>1, <2>1, <3>3, <3>4, <3>5, <3>6 DEF OrElse
    <3>7. CASE n # 0
      <4>1. ~(main_config[field] <= 0)
        BY <3>1, <3>3, <3>7
      <4>2. main_config'[field] = main_config[field]
        BY <1>1, <2>1, <4>1 DEF OrElse
      <4> QED
        BY <3>1, <3>3, <3>7, <4>2
    <3> QED
      BY <3>6, <3>7
  <2> QED
    BY <2>1, <2>2, <2>3 DEF Follows
<1> QED
  BY <1>1, <1>2, <1>3, <1>4 DEF OptionsInv, LongAsked, ScriptOnlyIfBoth

\* A path is empty when it was not asked for, or asked for as nothing.
LEMMA ModeInv ==
    ASSUME OptionsInv, ChooseMode
    PROVE  OptionsInv'
<1>1. /\ main_at = "init" /\ main_at' \in {"http", "script"}
      /\ main_at' = "script" <=> /\ main_config.script_file # ""
                                 /\ main_config.libpath # ""
      /\ argv' = argv /\ main_config' = main_config
  BY DEF ChooseMode
<1>2. \A field : Asked(field)' = Asked(field)
  <2>1. argv' = argv
    BY <1>1
  <2> QED
    BY <2>1 DEF Asked
<1>3. \A field \in Path : main_config[field] = "" <=> Asked(field) \in {{}, {""}}
  <2>1. \A field \in Path : Default[field] = ""
    <3>1. Default["script_file"] = "" /\ Default["libpath"] = ""
      BY DEF Default
    <3> QED
      BY <3>1 DEF Path
  <2>2. \A field \in Path : Follows(field)
    BY <1>1 DEF OptionsInv
  <2> QED
    BY <2>1, <2>2 DEF Follows, Stored
<1>4. /\ main_config.script_file = "" <=> Asked("script_file") \in {{}, {""}}
      /\ main_config.libpath = "" <=> Asked("libpath") \in {{}, {""}}
  BY <1>3 DEF Path
<1>5. ScriptOnlyIfBoth'
  BY <1>1, <1>2, <1>4 DEF ScriptOnlyIfBoth, Path
<1>6. CountsAsAsked'
  BY <1>1, <1>2 DEF OptionsInv, CountsAsAsked, OptionsRead
<1> QED
  BY <1>1, <1>2, <1>5, <1>6 DEF OptionsInv, LongAsked

\* The invariant holds in every reachable state.
THEOREM OptionsSafe == OptionsSpec => []OptionsInv
<1>1. OptionsInv /\ [OptionsNext]_argVars => OptionsInv'
  <2> SUFFICES ASSUME OptionsInv, [OptionsNext]_argVars PROVE OptionsInv'
    OBVIOUS
  <2>1. CASE \E arg \in Argument : ReadArgument(arg)
    BY <2>1, ReadInv
  <2>2. CASE EndOfOptions
    BY <2>2, EndInv
  <2>3. CASE ChooseMode
    BY <2>3, ModeInv
  <2>4. CASE UNCHANGED argVars
    <3>1. argv' = argv /\ main_config' = main_config /\ main_at' = main_at
      BY <2>4 DEF argVars
    <3>2. \A field : Asked(field)' = Asked(field)
      <4>1. argv' = argv
        BY <3>1
      <4> QED
        BY <4>1 DEF Asked
    <3>3. \A field : Follows(field)' = Follows(field)
      BY <3>1, <3>2 DEF Follows
    <3>4. CountsAsAsked'
      BY <3>1, <3>2 DEF OptionsInv, CountsAsAsked, OptionsRead
    <3>5. ScriptOnlyIfBoth'
      BY <3>1, <3>2 DEF OptionsInv, ScriptOnlyIfBoth
    <3> QED
      BY <3>1, <3>2, <3>3, <3>4, <3>5 DEF OptionsInv, LongAsked
  <2> QED
    BY <2>1, <2>2, <2>3, <2>4 DEF OptionsNext
<1> QED
  BY <1>1, InitInv, PTL DEF OptionsSpec

\* The counts in main_config are those the last option for each asked for.
THEOREM OptionsCounts == OptionsSpec => []CountsAsAsked
<1>1. OptionsInv => CountsAsAsked
  BY DEF OptionsInv
<1> QED
  BY <1>1, OptionsSafe, PTL

\* A script runs only if both of its paths were asked for.
THEOREM OptionsScript == OptionsSpec => []ScriptOnlyIfBoth
<1>1. OptionsInv => ScriptOnlyIfBoth
  BY DEF OptionsInv
<1> QED
  BY <1>1, OptionsSafe, PTL
=============================================================================
