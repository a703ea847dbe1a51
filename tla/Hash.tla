-------------------------------- MODULE Hash -------------------------------
(***************************************************************************)
(* The hash functions of src/third/hash: jenkins_hash and the two murmurs, *)
(* and hash_init, which chooses one.  No code of src/src calls them.       *)
(*                                                                         *)
(* The arithmetic is left out.  A hash of a key is determined by the place *)
(* where each byte of the key is added to the state, and by the number of  *)
(* mixing rounds before that: absorbed.  The state of a round is a row of  *)
(* 4-byte registers; byte b of register r is place 4 * r + b.              *)
(***************************************************************************)
EXTENDS Integers

CONSTANT MaxLength      \* bound: the length of a key

ASSUME HashAssumption == MaxLength \in Nat

VARIABLES
    build,              \* the macros the code was compiled with
    hash,               \* the function pointer
    length, address,    \* the key
    k,                  \* the bytes of the key consumed
    mixed,              \* the rounds of mixing so far
    absorbed,           \* what has been added to the state
    touched,            \* the bytes read, as offsets from the key
    final,              \* the final mixing was done
    hash_at             \* "idle", "blocks", "done"

keyVars  == <<length, address>>
sumVars  == <<k, mixed, absorbed, touched, final>>
hashVars == <<build, hash, keyVars, sumVars, hash_at>>

\* ENDIAN_BIG and VALGRIND.
Build == [big : BOOLEAN, valgrind : BOOLEAN]

HashFunc == {"jenkins_hash", "MurmurHash3_x86_32", "MurmurHash3_x86_128"}

HashTypeOK ==
    /\ build \in Build
    /\ hash \in HashFunc \cup {"NULL"}
    /\ length \in 0 .. MaxLength /\ address \in 0 .. 3
    /\ k \in Nat /\ mixed \in Nat
    /\ final \in BOOLEAN
    /\ hash_at \in {"idle", "blocks", "done"}

HashInit ==
    /\ build \in Build
    /\ hash = "NULL"
    /\ length = 0 /\ address = 0
    /\ k = 0 /\ mixed = 0 /\ absorbed = {} /\ touched = {} /\ final = FALSE
    /\ hash_at = "idle"

\* hash_init; any other type returns -1 and changes nothing.
hash_init(type) ==
    /\ hash_at = "idle"
    /\ hash' = CASE type = "JENKINS_HASH" -> "jenkins_hash"
                 [] type = "MURMUR3_HASH" -> "MurmurHash3_x86_32"
                 [] OTHER -> hash
    /\ UNCHANGED <<build, keyVars, sumVars, hash_at>>

\* A call through the pointer, or of MurmurHash3_x86_128, with a key of n bytes
\* at an address with remainder a modulo 4.
Call(f, n, a) ==
    /\ hash_at = "idle"
    /\ f \in {hash, "MurmurHash3_x86_128"}
    /\ hash' = f
    /\ length' = n /\ address' = a
    /\ hash_at' = "blocks"
    /\ UNCHANGED <<build, sumVars>>
----------------------------------------------------------------------------
\* Byte b of the word that a 32-bit load reads is byte Lane(b) of its value.
Lane(b) == IF build.big THEN 3 - b ELSE b

Put(byte, place) == [byte |-> byte, place |-> place, round |-> mixed]

\* n bytes read by 32-bit loads, the last of them masked to what is left.
Words(n) == {Put(k + j, 4 * (j \div 4) + Lane(j % 4)) : j \in 0 .. n - 1}

\* The odd byte is shifted as the byte before it.
SlipHalves(n) ==
    {Put(k + j, j) : j \in 0 .. 2 * (n \div 2) - 1} \cup
    (IF n % 2 = 1 THEN {Put(k + n - 1, n - 2)} ELSE {})

\* n bytes read by 16-bit loads, an odd one alone: little-endian code only.
Halves(n) ==
    {Put(k + j, j) : j \in 0 .. 2 * (n \div 2) - 1} \cup
    (IF n % 2 = 1 THEN {Put(k + n - 1, n - 1)} ELSE {})

\* n bytes read one by one; the shifts depend on ENDIAN_BIG.
Bytes(n) ==
    {Put(k + j, IF build.big THEN 4 * (j \div 4) + (3 - (j % 4)) ELSE j) : j \in 0 .. n - 1}

\* The address decides how jenkins_hash reads.
ByWords  == address % 4 = 0
ByHalves == ~ByWords /\ ~build.big /\ address % 2 = 0

Read(n) == IF ByWords THEN Words(n) ELSE IF ByHalves THEN Halves(n) ELSE Bytes(n)

\* All three words, however few bytes are left.
SlipLoaded(n) == IF ByWords /\ ~build.valgrind THEN 12 ELSE n

\* How many bytes Read loads: whole words, unless compiled for valgrind.
Loaded(n) == IF ByWords /\ ~build.valgrind THEN 4 * ((n + 3) \div 4) ELSE n

\* >= for >.
SlipFullBlock(rest) == rest >= 12

\* The loop condition.
FullBlock(rest) == rest > 12

JenkinsBlock ==
    /\ hash_at = "blocks" /\ hash = "jenkins_hash"
    /\ FullBlock(length - k)
    /\ absorbed' = absorbed \cup Read(12)
    /\ touched' = touched \cup (k .. k + Loaded(12) - 1)
    /\ k' = k + 12 /\ mixed' = mixed + 1
    /\ UNCHANGED <<build, hash, keyVars, final, hash_at>>

\* The switch over what is left, and final, which case 0 skips.
JenkinsLast ==
    /\ hash_at = "blocks" /\ hash = "jenkins_hash"
    /\ ~FullBlock(length - k)
    /\ absorbed' = absorbed \cup Read(length - k)
    /\ touched' = touched \cup (k .. k + Loaded(length - k) - 1)
    /\ final' = (length # k)
    /\ hash_at' = "done"
    /\ UNCHANGED <<build, hash, keyVars, k, mixed>>
----------------------------------------------------------------------------
Murmur == hash \in {"MurmurHash3_x86_32", "MurmurHash3_x86_128"}

\* One turn of the loop reads one word, or four.
Width == IF hash = "MurmurHash3_x86_32" THEN 4 ELSE 16

nblocks == length \div Width

\* The loop over i from -nblocks to 0: its blocks end at Width * nblocks.
MurmurBlock ==
    /\ hash_at = "blocks" /\ Murmur
    /\ k # Width * nblocks
    /\ absorbed' = absorbed \cup Words(Width)
    /\ touched' = touched \cup (k .. k + Width - 1)
    /\ k' = k + Width /\ mixed' = mixed + 1
    /\ UNCHANGED <<build, hash, keyVars, final, hash_at>>

\* The switch over the tail shifts each byte by its place; fmix32 always runs.
MurmurTail ==
    /\ hash_at = "blocks" /\ Murmur
    /\ k = Width * nblocks
    /\ LET n == length % Width
       IN  /\ absorbed' = absorbed \cup {Put(k + j, j) : j \in 0 .. n - 1}
           /\ touched' = touched \cup (k .. k + n - 1)
    /\ final' = TRUE
    /\ hash_at' = "done"
    /\ UNCHANGED <<build, hash, keyVars, k, mixed>>

HashNext ==
    \/ \E type \in {"JENKINS_HASH", "MURMUR3_HASH", "other"} : hash_init(type)
    \/ \E f \in HashFunc, n \in 0 .. MaxLength, a \in 0 .. 3 : Call(f, n, a)
    \/ JenkinsBlock \/ JenkinsLast
    \/ MurmurBlock \/ MurmurTail

HashSpec == HashInit /\ [][HashNext]_hashVars
----------------------------------------------------------------------------
\* Where byte i belongs: the address of the key is not in it.
Belongs(i) ==
    LET width   == IF Murmur THEN Width ELSE 12
        swapped == build.big /\ ~(Murmur /\ i >= Width * nblocks)
        place   == i % width
    IN  [byte |-> i, round |-> i \div width,
         place |-> IF swapped THEN 4 * (place \div 4) + (3 - (place % 4)) ELSE place]

\* Every byte of the key is absorbed once, where it belongs, and nothing else
\* is: equal keys have equal hashes wherever they lie, by words, halves or
\* bytes, with or without valgrind, and no byte beyond the key counts.
SameAnywhere == hash_at = "done" => absorbed = {Belongs(i) : i \in 0 .. length - 1}

\* What is read beyond the key lies in the word of one of its bytes, as the
\* comment on the masking trick says.
InWordsOfKey ==
    \A t \in touched : \E i \in 0 .. length - 1 :
        (address + t) \div 4 = (address + i) \div 4

\* jenkins_hash leaves a key unmixed if and only if it is empty.
OnlyEmptyUnmixed ==
    hash_at = "done" /\ hash = "jenkins_hash" => (final <=> length > 0) /\ (length = 0 => mixed = 0)
=============================================================================
