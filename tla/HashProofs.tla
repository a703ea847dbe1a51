----------------------------- MODULE HashProofs ----------------------------
(***************************************************************************)
(* What the hash functions absorb and read, for keys of every length at    *)
(* every address and for every build.                                      *)
(***************************************************************************)
EXTENDS Hash, TLAPS

\* Bytes per round.
Round == IF Murmur THEN Width ELSE 12

\* The rounds so far have absorbed the first k bytes, and read no others.
Progress ==
    /\ hash_at = "blocks" =>
           /\ hash \in HashFunc
           /\ k = Round * mixed /\ k <= length
           /\ Murmur => k <= Width * nblocks
           /\ ~Murmur => (k = length => k = 0)
           /\ absorbed = {Belongs(i) : i \in 0 .. k - 1}
           /\ touched = 0 .. k - 1
    /\ hash_at = "idle" => k = 0 /\ mixed = 0 /\ absorbed = {} /\ touched = {}
    /\ hash_at # "done" => final = FALSE

HashInv ==
    HashTypeOK /\ Progress /\ SameAnywhere /\ InWordsOfKey /\ OnlyEmptyUnmixed
----------------------------------------------------------------------------
USE HashAssumption

\* The arithmetic of blocks of 12, 4 and 16 bytes.
LEMMA Division ==
    /\ \A m \in Nat : \A j \in 0 .. 11 :
           /\ (12 * m + j) \div 12 = m /\ (12 * m + j) % 12 = j
    /\ \A m \in Nat : \A j \in 0 .. 3 :
           /\ (4 * m + j) \div 4 = m /\ (4 * m + j) % 4 = j
    /\ \A m \in Nat : \A j \in 0 .. 15 :
           /\ (16 * m + j) \div 16 = m /\ (16 * m + j) % 16 = j
OBVIOUS

\* Byte j of a block of jenkins_hash lands where it belongs, whichever way it
\* is read.
LEMMA ReadBelongs ==
    ASSUME HashTypeOK, ~Murmur, k = 12 * mixed, NEW n \in 0 .. 12
    PROVE  Read(n) = {Belongs(k + j) : j \in 0 .. n - 1}
<1>1. \A j \in 0 .. n - 1 :
          Belongs(k + j) =
              Put(k + j, IF build.big THEN 4 * (j \div 4) + (3 - (j % 4)) ELSE j)
    BY Division DEF HashTypeOK, Belongs, Put
<1>2. CASE ByWords
    <2>1. \A j \in 0 .. n - 1 : j % 4 \in 0 .. 3 /\ 4 * (j \div 4) + (j % 4) = j
        OBVIOUS
    <2>2. \A j \in 0 .. n - 1 : Put(k + j, 4 * (j \div 4) + Lane(j % 4)) = Belongs(k + j)
        BY <1>1, <2>1 DEF Lane
    <2> QED
        BY <1>2, <2>2 DEF Read, Words
<1>3. CASE ByHalves
    <2>1. ~build.big /\ ~ByWords
        BY <1>3 DEF ByHalves
    <2>2. \A j \in 0 .. n - 1 : Put(k + j, j) = Belongs(k + j)
        BY <1>1, <2>1
    <2>3. CASE n % 2 = 1
        <3>1. n - 1 = 2 * (n \div 2)
            BY <2>3
        <3>2. Read(n) = {Put(k + j, j) : j \in 0 .. n - 2} \cup {Put(k + (n - 1), n - 1)}
            BY <1>3, <2>1, <2>3, <3>1 DEF Read, Halves, HashTypeOK
        <3>3. n - 1 \in 0 .. n - 1 /\ \A j \in 0 .. n - 1 : j \in 0 .. n - 2 \/ j = n - 1
            BY <2>3
        <3> QED
            BY <2>2, <3>2, <3>3
    <2>4. CASE n % 2 # 1
        <3>1. n = 2 * (n \div 2)
            BY <2>4
        <3> QED
            BY <1>3, <2>1, <2>2, <2>4, <3>1 DEF Read, Halves
    <2> QED
        BY <2>3, <2>4
<1>4. CASE ~ByWords /\ ~ByHalves
    BY <1>1, <1>4 DEF Read, Bytes
<1> QED
    BY <1>2, <1>3, <1>4

\* The first k bytes and the next n are the first k + n.
LEMMA Grown ==
    ASSUME NEW n \in Nat, k \in Nat
    PROVE  {Belongs(i) : i \in 0 .. k - 1} \cup {Belongs(k + j) : j \in 0 .. n - 1}
               = {Belongs(i) : i \in 0 .. k + n - 1}
<1>1. \A i \in 0 .. k + n - 1 : i \in 0 .. k - 1 \/ (i - k \in 0 .. n - 1 /\ i = k + (i - k))
    OBVIOUS
<1>2. \A j \in 0 .. n - 1 : k + j \in 0 .. k + n - 1
    OBVIOUS
<1>3. \A i \in 0 .. k - 1 : i \in 0 .. k + n - 1
    OBVIOUS
<1> QED
    BY <1>1, <1>2, <1>3
\* Byte j of a block of murmur, and of its tail.
LEMMA WordsBelong ==
    ASSUME HashTypeOK, Murmur, k = Width * mixed, k + Width <= Width * nblocks
    PROVE  Words(Width) = {Belongs(k + j) : j \in 0 .. Width - 1}
<1>1. ASSUME NEW j \in 0 .. Width - 1 PROVE Belongs(k + j) = Put(k + j, 4 * (j \div 4) + Lane(j % 4))
    <2>1. (k + j) % Width = j /\ (k + j) \div Width = mixed
        BY Division DEF HashTypeOK, Width
    <2>2. ~(k + j >= Width * nblocks)
        BY DEF HashTypeOK, Width, nblocks
    <2>3. 4 * (j \div 4) + (j % 4) = j
        BY DEF Width
    <2> QED
        BY <2>1, <2>2, <2>3 DEF Belongs, Put, Lane
<1> QED
    BY <1>1 DEF Words

LEMMA TailBelongs ==
    ASSUME HashTypeOK, Murmur, k = Width * mixed, k = Width * nblocks
    PROVE  \A j \in 0 .. (length % Width) - 1 : Belongs(k + j) = Put(k + j, j)
<1> TAKE j \in 0 .. (length % Width) - 1
<1>1. (k + j) % Width = j /\ (k + j) \div Width = mixed
    BY Division DEF HashTypeOK, Width
<1>2. k + j >= Width * nblocks
    BY DEF HashTypeOK
<1> QED
    BY <1>1, <1>2 DEF Belongs, Put

\* The words that hold the bytes from the start of the key to byte k + n - 1.
LEMMA LoadedInWords ==
    ASSUME HashTypeOK, NEW n \in 0 .. 12, k + n <= length, k % 4 = 0,
           NEW t \in k .. k + Loaded(n) - 1
    PROVE  \E i \in 0 .. length - 1 : (address + t) \div 4 = (address + i) \div 4
<1>0. t \in Nat
    BY DEF HashTypeOK, Loaded
<1>1. CASE t < length
    <2>1. t \in 0 .. length - 1
        BY <1>0, <1>1 DEF HashTypeOK
    <2> QED
        BY <2>1
<1>2. CASE t >= length
    <2>1. address = 0 /\ t <= k + 4 * ((n + 3) \div 4) - 1
        BY <1>0, <1>2 DEF Loaded, ByWords, HashTypeOK
    <2>2. n > 0
        BY <1>0, <1>2, <2>1 DEF HashTypeOK
    <2>3. t \div 4 = (length - 1) \div 4
        BY <1>0, <1>2, <2>1, <2>2 DEF HashTypeOK
    <2>4. length - 1 \in 0 .. length - 1
        BY <2>2 DEF HashTypeOK
    <2>5. address + t = t /\ address + (length - 1) = length - 1
        BY <1>0, <2>1 DEF HashTypeOK
    <2> QED
        BY <2>3, <2>4, <2>5
<1> QED
    BY <1>0, <1>1, <1>2 DEF HashTypeOK
----------------------------------------------------------------------------
LEMMA IdleStep ==
    ASSUME HashInv, \/ \E type \in {"JENKINS_HASH", "MURMUR3_HASH", "other"} : hash_init(type)
                    \/ \E f \in HashFunc, n \in 0 .. MaxLength, a \in 0 .. 3 : Call(f, n, a)
    PROVE  HashInv'
<1> USE DEF HashInv, HashTypeOK, HashFunc, keyVars, sumVars
<1>1. ASSUME NEW type \in {"JENKINS_HASH", "MURMUR3_HASH", "other"}, hash_init(type)
      PROVE  HashInv'
    <2>1. hash' \in HashFunc \cup {"NULL"} /\ hash_at = "idle" /\ hash_at' = "idle"
        BY <1>1 DEF hash_init
    <2> QED
        BY <1>1, <2>1 DEF hash_init, Progress, SameAnywhere, InWordsOfKey, OnlyEmptyUnmixed
<1>2. ASSUME NEW f \in HashFunc, NEW n \in 0 .. MaxLength, NEW a \in 0 .. 3, Call(f, n, a)
      PROVE  HashInv'
    <2>1. /\ hash' = f /\ length' = n /\ address' = a /\ hash_at' = "blocks"
          /\ UNCHANGED <<build, k, mixed, absorbed, touched, final>>
          /\ k = 0 /\ mixed = 0 /\ absorbed = {} /\ touched = {} /\ final = FALSE
        BY <1>2 DEF Call, Progress
    <2>2. HashTypeOK'
        BY <2>1
    <2>3. k' = Round' * mixed' /\ k' <= (Width * nblocks)'
        BY <2>1 DEF Round, Width, nblocks
    <2>4. absorbed' = {Belongs(i) : i \in 0 .. k - 1}' /\ touched' = 0 .. k' - 1
        BY <2>1
    <2>5. Progress'
        BY <2>1, <2>3, <2>4 DEF Progress
    <2> QED
        BY <2>1, <2>2, <2>5 DEF SameAnywhere, InWordsOfKey, OnlyEmptyUnmixed
<1> QED
    BY <1>1, <1>2

LEMMA JenkinsBlockStep == ASSUME HashInv, JenkinsBlock PROVE HashInv'
<1> USE DEF HashInv, HashTypeOK, HashFunc
<1>1. /\ hash_at = "blocks" /\ hash = "jenkins_hash" /\ ~Murmur /\ Round = 12
      /\ k = 12 * mixed /\ k + 12 < length
      /\ absorbed = {Belongs(i) : i \in 0 .. k - 1} /\ touched = 0 .. k - 1 /\ final = FALSE
    BY DEF JenkinsBlock, FullBlock, Progress, Murmur, Round
<1>2. /\ k' = k + 12 /\ mixed' = mixed + 1
      /\ UNCHANGED <<build, hash, length, address, final, hash_at>>
    BY DEF JenkinsBlock, keyVars
<1>3. \A i : Belongs(i)' = Belongs(i)
    BY <1>2 DEF Belongs, Murmur, Width, nblocks
<1>4. absorbed' = {Belongs(i) : i \in 0 .. k + 12 - 1}
    <2>1. Read(12) = {Belongs(k + j) : j \in 0 .. 12 - 1}
        BY <1>1, ReadBelongs
    <2>2. {Belongs(i) : i \in 0 .. k - 1} \cup {Belongs(k + j) : j \in 0 .. 12 - 1}
              = {Belongs(i) : i \in 0 .. k + 12 - 1}
        BY Grown
    <2> QED
        BY <1>1, <2>1, <2>2 DEF JenkinsBlock
<1>5. touched' = 0 .. k' - 1
    <2>1. Loaded(12) = 12
        BY DEF Loaded
    <2> QED
        BY <1>1, <1>2, <2>1 DEF JenkinsBlock
<1>6. absorbed' = {Belongs(i) : i \in 0 .. k - 1}'
    BY <1>2, <1>3, <1>4
<1>7. HashTypeOK'
    BY <1>2
<1>8. Progress'
    BY <1>1, <1>2, <1>5, <1>6 DEF Progress, Murmur, Round
<1>9. InWordsOfKey'
    BY <1>1, <1>2, <1>5 DEF InWordsOfKey
<1> QED
    BY <1>1, <1>2, <1>7, <1>8, <1>9 DEF SameAnywhere, OnlyEmptyUnmixed

LEMMA JenkinsLastStep == ASSUME HashInv, JenkinsLast PROVE HashInv'
<1> USE DEF HashInv, HashTypeOK, HashFunc
<1> DEFINE n == length - k
<1>1. /\ hash_at = "blocks" /\ hash = "jenkins_hash" /\ ~Murmur
      /\ k = 12 * mixed /\ n \in 0 .. 12 /\ k + n = length /\ (k = length => k = 0)
      /\ absorbed = {Belongs(i) : i \in 0 .. k - 1} /\ touched = 0 .. k - 1
    BY DEF JenkinsLast, FullBlock, Progress, Murmur, Round
<1>2. /\ hash_at' = "done" /\ final' = (length # k)
      /\ UNCHANGED <<build, hash, length, address, k, mixed>>
    BY DEF JenkinsLast, keyVars
<1>3. \A i : Belongs(i)' = Belongs(i)
    BY <1>2 DEF Belongs, Murmur, Width, nblocks
<1>4. SameAnywhere'
    <2>1. Read(n) = {Belongs(k + j) : j \in 0 .. n - 1}
        BY <1>1, ReadBelongs
    <2>2. absorbed' = absorbed \cup Read(n)
        BY DEF JenkinsLast
    <2>3. absorbed' = {Belongs(i) : i \in 0 .. k + n - 1}
        <3>1. n \in Nat
            BY <1>1
        <3> HIDE DEF n
        <3> QED
            BY <1>1, <2>1, <2>2, <3>1, Grown
    <2> QED
        BY <1>1, <1>2, <1>3, <2>3 DEF SameAnywhere
<1>5. InWordsOfKey'
    <2>1. \A t \in 0 .. k - 1 : t \in 0 .. length - 1
        BY <1>1
    <2>2. \A t \in k .. k + Loaded(n) - 1 :
              \E i \in 0 .. length - 1 : (address + t) \div 4 = (address + i) \div 4
        <3>1. k + n <= length /\ k % 4 = 0 /\ n \in 0 .. 12
            BY <1>1
        <3> HIDE DEF n
        <3> QED
            BY <3>1, LoadedInWords
    <2>3. touched' = (0 .. k - 1) \cup (k .. k + Loaded(n) - 1)
        BY <1>1 DEF JenkinsLast
    <2> QED
        BY <1>2, <2>1, <2>2, <2>3 DEF InWordsOfKey
<1>6. OnlyEmptyUnmixed'
    <2>1. length = 0 => mixed = 0
        BY <1>1
    <2>2. (length # k) <=> length > 0
        BY <1>1
    <2> QED
        BY <1>2, <2>1, <2>2 DEF OnlyEmptyUnmixed
<1> QED
    BY <1>2, <1>4, <1>5, <1>6 DEF Progress

LEMMA MurmurBlockStep == ASSUME HashInv, MurmurBlock PROVE HashInv'
<1> USE DEF HashInv, HashTypeOK, HashFunc
<1>1. /\ hash_at = "blocks" /\ hash # "jenkins_hash" /\ Murmur /\ Round = Width
      /\ k = Width * mixed /\ k <= Width * nblocks /\ k # Width * nblocks
      /\ absorbed = {Belongs(i) : i \in 0 .. k - 1} /\ touched = 0 .. k - 1 /\ final = FALSE
    BY DEF MurmurBlock, Progress, Murmur, Round
<1>2. /\ k' = k + Width /\ mixed' = mixed + 1
      /\ UNCHANGED <<build, hash, length, address, final, hash_at>>
    BY DEF MurmurBlock, keyVars
<1>3. /\ \A i : Belongs(i)' = Belongs(i)
      /\ Width' = Width /\ nblocks' = nblocks /\ Murmur' /\ Round' = Width
    BY <1>1, <1>2 DEF Belongs, Murmur, Width, nblocks, Round
<1>4. /\ k + Width <= Width * nblocks /\ Width * nblocks <= length
      /\ Width \in {4, 16} /\ nblocks \in Nat
    <2>1. nblocks \in Nat /\ mixed < nblocks
        BY <1>1 DEF nblocks, Width
    <2> QED
        BY <1>1, <2>1 DEF nblocks, Width
<1>5. absorbed' = {Belongs(i) : i \in 0 .. k + Width - 1}
    <2>1. Words(Width) = {Belongs(k + j) : j \in 0 .. Width - 1}
        BY <1>1, <1>4, WordsBelong
    <2>2. {Belongs(i) : i \in 0 .. k - 1} \cup {Belongs(k + j) : j \in 0 .. Width - 1}
              = {Belongs(i) : i \in 0 .. k + Width - 1}
        BY <1>4, Grown
    <2> QED
        BY <1>1, <2>1, <2>2 DEF MurmurBlock
<1>6. touched' = 0 .. k' - 1
    BY <1>1, <1>2, <1>4 DEF MurmurBlock
<1>7. absorbed' = {Belongs(i) : i \in 0 .. k - 1}'
    <2>1. 0 .. k' - 1 = 0 .. k + Width - 1
        <3>1. k' - 1 = k + Width - 1
            BY <1>2, <1>4
        <3> QED
            BY <3>1
    <2> QED
        BY <1>3, <1>5, <2>1
<1>8. HashTypeOK'
    BY <1>2, <1>4
<1>9. k' = Round' * mixed' /\ k' <= Width' * nblocks' /\ k' <= length'
    <2>1. k' = Width * (mixed + 1)
        BY <1>1, <1>2, <1>4
    <2>2. k' <= Width * nblocks /\ k' <= length
        BY <1>2, <1>4
    <2> QED
        BY <1>2, <1>3, <2>1, <2>2
<1>10. Progress'
    BY <1>1, <1>2, <1>3, <1>6, <1>7, <1>9 DEF Progress
<1>11. InWordsOfKey'
    <2>1. \A t \in 0 .. k' - 1 : t \in 0 .. length' - 1
        BY <1>2, <1>8, <1>9
    <2> QED
        BY <1>6, <2>1 DEF InWordsOfKey
<1> QED
    BY <1>1, <1>2, <1>8, <1>10, <1>11 DEF SameAnywhere, OnlyEmptyUnmixed

LEMMA MurmurTailStep == ASSUME HashInv, MurmurTail PROVE HashInv'
<1> USE DEF HashInv, HashTypeOK, HashFunc
<1> DEFINE n == length % Width
<1>1. /\ hash_at = "blocks" /\ hash # "jenkins_hash" /\ Murmur /\ Width \in {4, 16}
      /\ k = Width * mixed /\ k = Width * nblocks /\ k + n = length /\ n \in Nat
      /\ absorbed = {Belongs(i) : i \in 0 .. k - 1} /\ touched = 0 .. k - 1
    BY DEF MurmurTail, Progress, Murmur, Round, Width, nblocks
<1>2. /\ hash_at' = "done" /\ final' = TRUE
      /\ UNCHANGED <<build, hash, length, address, k, mixed>>
    BY DEF MurmurTail, keyVars
<1>3. \A i : Belongs(i)' = Belongs(i)
    BY <1>2 DEF Belongs, Murmur, Width, nblocks
<1>4. SameAnywhere'
    <2>1. {Put(k + j, j) : j \in 0 .. n - 1} = {Belongs(k + j) : j \in 0 .. n - 1}
        BY <1>1, TailBelongs
    <2>2. {Belongs(i) : i \in 0 .. k - 1} \cup {Belongs(k + j) : j \in 0 .. n - 1}
              = {Belongs(i) : i \in 0 .. k + n - 1}
        <3> HIDE DEF n
        <3> QED
            BY <1>1, Grown
    <2>3. absorbed' = absorbed \cup {Put(k + j, j) : j \in 0 .. n - 1}
        BY DEF MurmurTail
    <2>4. absorbed' = {Belongs(i) : i \in 0 .. length - 1}
        <3>1. k + n - 1 = length - 1
            BY <1>1
        <3> HIDE DEF n
        <3> QED
            BY <1>1, <2>1, <2>2, <2>3, <3>1
    <2> QED
        BY <1>2, <1>3, <2>4 DEF SameAnywhere
<1>5. InWordsOfKey'
    <2>1. touched' = touched \cup (k .. k + n - 1)
        BY DEF MurmurTail
    <2>2. \A t \in touched' : t \in 0 .. length - 1
        <3> HIDE DEF n
        <3> QED
            BY <1>1, <2>1
    <2> QED
        BY <1>2, <2>2 DEF InWordsOfKey
<1> QED
    BY <1>1, <1>2, <1>4, <1>5 DEF Progress, OnlyEmptyUnmixed

THEOREM HashSafe == HashSpec => []HashInv
<1>1. HashInit => HashInv
    <2> SUFFICES ASSUME HashInit PROVE HashInv
        OBVIOUS
    <2>1. HashTypeOK
        <3>1. 0 \in 0 .. MaxLength /\ 0 \in 0 .. 3
            OBVIOUS
        <3> QED
            BY <3>1 DEF HashInit, HashTypeOK
    <2>2. Progress
        BY DEF HashInit, Progress
    <2>3. SameAnywhere /\ InWordsOfKey /\ OnlyEmptyUnmixed
        BY DEF HashInit, SameAnywhere, InWordsOfKey, OnlyEmptyUnmixed
    <2> QED
        BY <2>1, <2>2, <2>3 DEF HashInv
<1>2. HashInv /\ [HashNext]_hashVars => HashInv'
    <2> SUFFICES ASSUME HashInv, [HashNext]_hashVars PROVE HashInv'
        OBVIOUS
    <2>1. CASE UNCHANGED hashVars
        <3>1. UNCHANGED <<build, hash, length, address, k, mixed, absorbed, touched, final, hash_at>>
            BY <2>1 DEF hashVars, keyVars, sumVars
        <3>2. HashTypeOK' /\ Progress'
            BY <3>1 DEF HashInv, HashTypeOK, Progress, Belongs, Murmur, Width, nblocks, Round
        <3>3. SameAnywhere' /\ InWordsOfKey' /\ OnlyEmptyUnmixed'
            BY <3>1 DEF HashInv, SameAnywhere, InWordsOfKey, OnlyEmptyUnmixed, Belongs, Murmur,
                        Width, nblocks
        <3> QED
            BY <3>2, <3>3 DEF HashInv
    <2> QED
        BY <2>1, IdleStep, JenkinsBlockStep, JenkinsLastStep, MurmurBlockStep, MurmurTailStep
           DEF HashNext
<1> QED
    BY <1>1, <1>2, PTL DEF HashSpec

\* Equal keys have equal hashes wherever they lie (jenkins_hash.c:136-292,
\* murmur3_hash.c:71-228), for keys of every length.
THEOREM HashSameAnywhere == HashSpec => []SameAnywhere
BY HashSafe, PTL DEF HashInv

\* Nothing is read outside the words that hold the key (jenkins_hash.c:154-162).
THEOREM HashInWordsOfKey == HashSpec => []InWordsOfKey
BY HashSafe, PTL DEF HashInv

\* No other key than the empty one is left unmixed (jenkins_hash.c:180, 297).
THEOREM HashOnlyEmptyUnmixed == HashSpec => []OnlyEmptyUnmixed
BY HashSafe, PTL DEF HashInv
=============================================================================
