---------------------------- MODULE OptionsProofs ----------------------------
(***************************************************************************)
(* Proofs about Options for command lines of any length: the loops of      *)
(* get_options, one after the other, give every option its last value, as  *)
(* long as none stands in the place of another's value, and the size that  *)
(* g_main allocates is a power of two of blocks.                           *)
(***************************************************************************)
EXTENDS Options, TLAPS

-----------------------------------------------------------------------------
(* The invariant *)

PCs == {"options", "size", "halve", "usage", "allocate"}
Ints == -INT_MAX - 1..INT_MAX

Cells == Words \cup {""}

TypeOK == /\ given \in Seq(Words)
          /\ argv \in Seq(Cells) /\ Len(argv) = Len(given)
          /\ value \in [Options -> Ints]
          /\ option \in 1..6 /\ i \in Nat
          /\ pc \in PCs /\ n \in Ints /\ v \in Ints
          /\ pc # "options" => option = 6

\* The loops for an option that have begun, and those that have passed argument k.
Begun(o) == o < option \/ (o = option /\ i > 0)
Passed(o, k) == o < option \/ (o = option /\ k < i)

\* An option that has begun has a number that was set since.
ValuesSet == /\ \A o \in 2..5 : Begun(o) => value[specifiers[o]] \in 0..3
             /\ option = 6 => value["-benchmark"] \in 0..3

\* The places of option o, an index of specifiers, that its loop has passed.
Seen(o) == {k \in Places(specifiers[o]) : Passed(o, k)}

\* What has been blanked: options that were seen, and the values they took.
Consumed(k) == (\E o \in 1..5 : k \in Seen(o)) \/ k - 1 \in Seen(1) \cup Seen(4)

Blanked == \A k \in 1..Len(given) : argv[k] = IF Consumed(k) THEN "" ELSE given[k]

\* An option has the value of the last place seen, from the beginning of its loop on.
Means(o) ==
  /\ Seen(o) = {} => value[specifiers[o]] = Default(specifiers[o])
  /\ \A k \in Seen(o) : (\A j \in Seen(o) : j <= k) =>
       value[specifiers[o]] = Meaning(specifiers[o], k)

ValuesMeant == \A o \in 1..5 : o = 1 \/ Begun(o) => Means(o)

\* Halving: the size is the part left times a power of two.
Halving ==
  /\ pc \in {"halve", "allocate"} =>
       /\ n >= BLOCK_SIZE /\ v >= 1
       /\ \E k \in 0..30 : n = v * Power[k]
  /\ pc = "allocate" => v = 1

IInv == TypeOK /\ ValuesSet /\ Halving /\ (WellFormed => Blanked /\ ValuesMeant)

-----------------------------------------------------------------------------
(* The options and the powers *)

\* The options are five different words, none of them empty.
LEMMA OptionFacts ==
  /\ Len(specifiers) = 5
  /\ specifiers[1] = "-n" /\ specifiers[2] = "-o" /\ specifiers[3] = "-c"
  /\ specifiers[4] = "-benchmark" /\ specifiers[5] = "-h"
  /\ Options = {"-n", "-o", "-c", "-benchmark", "-h"}
  /\ \A o \in 1..5 : (opt_types[o] = "INTARG" <=> o = 1) /\ (opt_types[o] = "BENCHMARK" <=> o = 4)
                     /\ (opt_types[o] = "BOOLARG" <=> o \in {2, 3, 5})
  /\ "" \notin Words /\ Options \subseteq Words
<1>1. /\ Len(specifiers) = 5
      /\ specifiers[1] = "-n" /\ specifiers[2] = "-o" /\ specifiers[3] = "-c"
      /\ specifiers[4] = "-benchmark" /\ specifiers[5] = "-h"
  BY DEF specifiers
<1>2. Options = {"-n", "-o", "-c", "-benchmark", "-h"}
  BY <1>1, 1..5 = {1, 2, 3, 4, 5} DEF Options
<1>3. \A o \in 1..5 : (opt_types[o] = "INTARG" <=> o = 1) /\ (opt_types[o] = "BENCHMARK" <=> o = 4)
                     /\ (opt_types[o] = "BOOLARG" <=> o \in {2, 3, 5})
  BY DEF opt_types
<1>4. "" \notin Words /\ Options \subseteq Words
  BY <1>2, OptionsAssumption DEF Words
<1> QED
  BY <1>1, <1>2, <1>3, <1>4

\* Power is the function its definition says.
Doubles(g) == [k \in 0..30 |-> IF k = 0 THEN 1 ELSE 2 * g[k - 1]]

\* The powers of two that the checks on the options compare with.
LEMMA PowerFacts == /\ Power[0] = 1 /\ Power[30] = 1073741824
                    /\ \A k \in 1..30 : Power[k] = 2 * Power[k - 1] /\ Power[k] \in Nat
<1> DEFINE twos == <<1, 2, 4, 8, 16, 32, 64, 128, 256, 512, 1024, 2048, 4096, 8192, 16384, 32768,
                     65536, 131072, 262144, 524288, 1048576, 2097152, 4194304, 8388608, 16777216,
                     33554432, 67108864, 134217728, 268435456, 536870912, 1073741824>>
           t == [k \in 0..30 |-> twos[k + 1]]
           f == CHOOSE g : g = Doubles(g)
<1>1. \A k \in 1..30 : twos[k + 1] = 2 * twos[k] /\ twos[k] \in Nat
  BY SMT
<1>2. t = Doubles(t)
  BY <1>1, SMT DEF Doubles
<1>3. f = Doubles(f)
  BY <1>2, SMT
<1>4. Power = f
  BY SMT DEF Power, Doubles
<1> HIDE DEF f
<1>5. \A k \in 0..30 : Power[k] = twos[k + 1]
  BY <1>3, <1>4, SMT DEF Doubles
<1> QED
  BY <1>5, SMT

\* atoi returns an int, of a blanked argument as well.
LEMMA AtoiType == \A w \in Cells : atoi(w) \in Ints
  BY OptionsAssumption, Zenon DEF Ints, Cells

\* The numbers that occur are ints, and an int is less than 2^31.
LEMMA IntFacts ==
  /\ Ints \subseteq Int /\ 0..DEFAULT_SIZE \subseteq Ints /\ 2048 \in Ints /\ -1 \in Ints
  /\ \A x \in Ints : x < 2 * Power[30]
  /\ \A x \in Ints : x >= 0 => 0..x \subseteq Ints
<1>1. /\ INT_MAX \in Nat /\ INT_MAX >= 2048 /\ INT_MAX = 2 * Power[30] - 1
      /\ Power[30] \in Nat /\ DEFAULT_SIZE = 256
  BY PowerFacts, SMT DEF INT_MAX, DEFAULT_SIZE, BLOCK_SIZE
<1>2. /\ Ints \subseteq Int /\ 0..DEFAULT_SIZE \subseteq Ints /\ 2048 \in Ints /\ -1 \in Ints
      /\ \A x \in Ints : x >= 0 => 0..x \subseteq Ints
  BY <1>1, SMT DEF Ints
<1>3. \A x \in Ints : x < 2 * Power[30]
  BY <1>1, SMT DEF Ints
<1> QED
  BY <1>2, <1>3

\* The options are five, and looked for one after the other.
LEMMA LookingFacts ==
  ASSUME TypeOK, Looking
  PROVE  /\ option \in 1..5 /\ specifiers[option] \in Options
         /\ \A o, p \in 1..5 : specifiers[o] = specifiers[p] => o = p
         /\ opt_types[option] = "INTARG" <=> option = 1
         /\ opt_types[option] = "BENCHMARK" <=> option = 4
         /\ opt_types[option] = "BOOLARG" <=> option \in {2, 3, 5}
         /\ Last = IF option = 1 THEN Len(argv) - 1 ELSE Len(argv)
<1>1. option \in 1..5
  <2>1. option \in 1..6 /\ option <= Len(specifiers)
    BY DEF TypeOK, Looking
  <2>2. Len(specifiers) = 5
    BY OptionFacts
  <2> QED BY <2>1, <2>2
<1>2. \A o \in 1..5 : o = 1 \/ o = 2 \/ o = 3 \/ o = 4 \/ o = 5
  OBVIOUS
<1> QED
  BY <1>1, <1>2, OptionFacts DEF Last

-----------------------------------------------------------------------------
(* The loops of get_options *)

\* The invariant holds when g_main calls get_options.
LEMMA InitInv == Init => IInv
<1> SUFFICES ASSUME Init PROVE IInv
  OBVIOUS
<1>1. PICK m \in 0..MaxArgs : given \in [1..m -> Words]
  BY DEF Init
<1>2. m \in Nat /\ given \in Seq(Words) /\ Len(given) = m
  <2>1. MaxArgs \in Nat
    BY OptionsAssumption
  <2> QED BY <1>1, <2>1
<1>3. argv \in Seq(Cells) /\ Len(argv) = Len(given) /\ argv = given
  <2>1. argv = given
    BY DEF Init
  <2>2. given \in [1..m -> Cells]
    BY <1>1 DEF Cells
  <2>3. given \in Seq(Cells)
    BY <1>2, <2>2
  <2> QED BY <1>2, <2>1, <2>3
<1>4. value \in [Options -> Ints]
  BY IntFacts, SMT DEF Init, JUNK, DEFAULT_SIZE, BLOCK_SIZE
<1>5. TypeOK
  <2>1. n \in Ints /\ v \in Ints
    BY IntFacts, SMT DEF Init, DEFAULT_SIZE, BLOCK_SIZE
  <2>2. option \in 1..6 /\ i \in Nat /\ pc \in PCs /\ pc = "options"
    BY DEF Init, PCs
  <2> QED BY <1>2, <1>3, <1>4, <2>1, <2>2, Zenon DEF TypeOK
<1>6. ValuesSet
  BY DEF Init, ValuesSet, Begun
<1>7. Blanked
  <2>1. \A o \in 1..5 : Seen(o) = {}
    BY <1>2 DEF Init, Seen, Passed, Places
  <2>2. \A k : ~Consumed(k)
    BY <2>1 DEF Consumed
  <2> QED BY <1>3, <2>2 DEF Blanked
<1>8. ValuesMeant
  <2>1. Seen(1) = {}
    BY <1>2 DEF Init, Seen, Passed, Places
  <2>2. value["-n"] = DEFAULT_SIZE /\ specifiers[1] = "-n"
    BY OptionFacts DEF Init
  <2>3. Means(1)
    BY <2>1, <2>2 DEF Means, Default
  <2> QED BY <2>3 DEF Init, ValuesMeant, Begun
<1>9. Halving
  BY DEF Init, Halving
<1> QED
  BY <1>5, <1>6, <1>7, <1>8, <1>9 DEF IInv

\* Looking at an argument, and taking it, keeps the types.
LEMMA TakeType ==
  ASSUME TypeOK, NEW taken, Take(taken)
  PROVE  /\ argv' \in Seq(Cells) /\ Len(argv') = Len(argv)
         /\ \A k \in 1..Len(argv) : argv'[k] = IF k \in taken THEN "" ELSE argv[k]
<1> DEFINE m == Len(argv)
<1>1. argv \in Seq(Cells)
  BY DEF TypeOK
<1>2. m \in Nat /\ DOMAIN argv = 1..m /\ \A k \in 1..m : argv[k] \in Cells
  BY <1>1
<1> HIDE DEF m
<1>3. argv' = [k \in 1..m |-> IF k \in taken THEN "" ELSE argv[k]]
  BY <1>2 DEF Take
<1>4. argv' \in [1..m -> Cells]
  BY <1>2, <1>3, "" \in Cells DEF Cells
<1>5. argv' \in Seq(Cells) /\ Len(argv') = m
  BY <1>2, <1>4
<1> QED
  BY <1>3, <1>5 DEF m

\* What a step of a loop changes, in one form for the three kinds of options.
LEMMA LookStep ==
  ASSUME TypeOK, IntArg \/ BoolArg \/ Benchmark
  PROVE  /\ Looking /\ i \in 1..Last /\ i' = i + 1
         /\ UNCHANGED <<given, option, pc, n, v>>
         /\ \/ /\ argv[i] # specifiers[option] /\ UNCHANGED <<argv, value>>
            \/ \E x \in Ints :
                 /\ argv[i] = specifiers[option] /\ SetValue(x)
                 /\ Take(IF option \in {1, 4} THEN {i, i + 1} ELSE {i})
                 /\ option # 1 => x \in 1..3
<1>1. Looking /\ i \in 1..Last /\ i' = i + 1 /\ UNCHANGED <<given, option, pc, n, v>>
  BY DEF IntArg, BoolArg, Benchmark, LookAt
<1>2. CASE IntArg
  <2>1. option = 1
    BY <1>1, <1>2, LookingFacts DEF IntArg, LookAt
  <2>2. i + 1 \in 1..Len(argv)
    BY <1>1, <2>1, LookingFacts DEF TypeOK
  <2>3. argv[i + 1] \in Cells
    <3>1. argv \in Seq(Cells)
      BY DEF TypeOK
    <3> QED BY <2>2, <3>1
  <2>4. \E x \in Ints : x = atoi(argv[i + 1])
    BY <2>3, AtoiType, Zenon
  <2>5. \/ argv[i] # specifiers[option] /\ UNCHANGED <<argv, value>>
        \/ argv[i] = specifiers[option] /\ Take({i, i + 1}) /\ SetValue(atoi(argv[i + 1]))
    BY <1>2, Zenon DEF IntArg, Here, PassBy
  <2> QED BY <1>1, <2>1, <2>4, <2>5, Zenon
<1>3. CASE BoolArg
  <2>1. option \in {2, 3, 5}
    BY <1>1, <1>3, LookingFacts DEF BoolArg, LookAt
  <2>2. 1 \in Ints
    BY IntFacts DEF DEFAULT_SIZE, BLOCK_SIZE
  <2> QED BY <1>1, <1>3, <2>1, <2>2 DEF BoolArg, Here, PassBy
<1>4. CASE Benchmark
  <2>1. option = 4
    BY <1>1, <1>4, LookingFacts DEF Benchmark, LookAt
  <2>2. 1..3 \subseteq Ints
    BY IntFacts DEF DEFAULT_SIZE, BLOCK_SIZE
  <2>3. \/ argv[i] # specifiers[option] /\ UNCHANGED <<argv, value>>
        \/ \E x \in 1..3 : argv[i] = specifiers[option] /\ Take({i, i + 1}) /\ SetValue(x)
    BY <1>4 DEF Benchmark, Here, PassBy
  <2> QED BY <1>1, <2>1, <2>2, <2>3
<1> QED
  BY <1>2, <1>3, <1>4

\* Every step keeps the types.
LEMMA TypeStep ==
  ASSUME IInv, [Next]_vars
  PROVE  TypeOK'
<1> TypeOK /\ ValuesSet /\ Halving
  BY DEF IInv
<1>1. CASE BeginOption
  <2>1. 0 \in Ints
    BY IntFacts DEF DEFAULT_SIZE, BLOCK_SIZE
  <2>2. value' \in [Options -> Ints]
    BY <1>1, <2>1 DEF BeginOption, SetValue, TypeOK
  <2> QED BY <1>1, <2>2 DEF BeginOption, TypeOK
<1>2. CASE IntArg \/ BoolArg \/ Benchmark
  <2>1. i' \in Nat /\ UNCHANGED <<given, option, pc, n, v>>
    BY <1>2, LookStep DEF TypeOK
  <2>2. CASE UNCHANGED <<argv, value>>
    BY <2>1, <2>2 DEF TypeOK
  <2>3. CASE \E x \in Ints : SetValue(x) /\ \E taken : Take(taken)
    <3>1. value' \in [Options -> Ints]
      BY <2>3 DEF SetValue, TypeOK
    <3>2. argv' \in Seq(Cells) /\ Len(argv') = Len(argv)
      BY <2>3, TakeType
    <3> QED BY <2>1, <3>1, <3>2 DEF TypeOK
  <2> QED BY <1>2, <2>2, <2>3, LookStep
<1>3. CASE NextOption
  <2>1. option' \in 1..6
    BY <1>3, LookingFacts DEF NextOption
  <2> QED BY <1>3, <2>1 DEF NextOption, TypeOK, Looking
<1>4. CASE ChooseSize
  <2>1. option = 6
    <3>1. Len(specifiers) = 5
      BY OptionFacts
    <3> QED BY <1>4, <3>1 DEF ChooseSize, TypeOK
  <2>2. value["-n"] \in Ints /\ value["-benchmark"] \in 0..3
    BY <2>1, OptionFacts DEF TypeOK, ValuesSet
  <2>3. 16 \in Ints /\ DEFAULT_SIZE \in Ints /\ 2048 \in Ints
    BY IntFacts DEF DEFAULT_SIZE, BLOCK_SIZE
  <2>4. Benchmarked \in Ints
    BY <2>2, <2>3 DEF Benchmarked
  <2>5. n' \in Ints /\ pc' \in PCs
    BY <1>4, <2>4 DEF ChooseSize, TypeOK, PCs
  <2> QED BY <1>4, <2>1, <2>5 DEF ChooseSize, TypeOK
<1>5. CASE CompareBlock
  <2>1. pc' \in PCs /\ pc # "options" /\ v' \in Ints
    BY <1>5 DEF CompareBlock, PCs, TypeOK
  <2> QED BY <1>5, <2>1 DEF CompareBlock, TypeOK
<1>6. CASE Halve
  <2>1. v \in Ints /\ v >= 1
    BY <1>6 DEF Halve, TypeOK, Halving
  <2>2. v \in Int /\ v \div 2 \in 0..v
    BY <2>1, IntFacts
  <2>3. v' \in Ints
    BY <1>6, <2>1, <2>2, IntFacts DEF Halve
  <2> QED BY <1>6, <2>3 DEF Halve, TypeOK
<1>7. CASE CompareOne
  <2>1. pc' \in PCs /\ pc # "options"
    BY <1>7 DEF CompareOne, PCs
  <2> QED BY <1>7, <2>1 DEF CompareOne, TypeOK
<1>8. CASE UNCHANGED vars
  BY <1>8 DEF vars, TypeOK
<1> QED
  BY <1>1, <1>2, <1>3, <1>4, <1>5, <1>6, <1>7, <1>8 DEF Next

\* Every step keeps the values of the options that have begun, and sets the one that begins.
LEMMA ValuesStep ==
  ASSUME IInv, [Next]_vars
  PROVE  ValuesSet'
<1> TypeOK /\ ValuesSet
  BY DEF IInv
<1>0. specifiers[4] = "-benchmark" /\ Len(specifiers) = 5
  BY OptionFacts
<1>1. CASE BeginOption
  <2>1. \A o \in 2..5 : Begun(o)' => Begun(o) \/ o = option
    BY <1>1 DEF BeginOption, Begun, TypeOK
  <2>2. option' = option /\ option # 6
    BY <1>1, LookingFacts DEF BeginOption
  <2>3. \A o \in 2..5 : value'[specifiers[o]] = IF o = option THEN 0 ELSE value[specifiers[o]]
    <3>1. \A o \in 1..5 : specifiers[o] \in Options
      BY DEF Options
    <3> QED BY <1>1, <2>2, <3>1, LookingFacts DEF BeginOption, SetValue, TypeOK
  <2> QED BY <2>1, <2>2, <2>3 DEF ValuesSet
<1>2. CASE IntArg \/ BoolArg \/ Benchmark
  <2>1. option' = option /\ option \in 1..5 /\ \A o \in 2..5 : Begun(o)' => Begun(o)
    BY <1>2, LookStep, LookingFacts DEF TypeOK, Begun
  <2>2. \A o \in 2..5 : value'[specifiers[o]] \in 1..3 \cup {value[specifiers[o]]}
    <3>1. \A o \in 1..5 : specifiers[o] \in Options
      BY DEF Options
    <3>2. CASE UNCHANGED value
      BY <3>2
    <3>3. CASE \E x \in Ints : SetValue(x) /\ (option # 1 => x \in 1..3)
      BY <2>1, <3>1, <3>3, <1>2, LookStep, LookingFacts DEF SetValue, TypeOK
    <3> QED BY <1>2, <3>2, <3>3, LookStep
  <2> QED BY <2>1, <2>2 DEF ValuesSet
<1>3. CASE NextOption
  <2>1. \A o \in 2..5 : Begun(o)' => Begun(o)
    BY <1>3, LookingFacts DEF NextOption, Begun, TypeOK
  <2>2. option' = 6 => Begun(4)
    BY <1>3, LookingFacts DEF NextOption, Begun, TypeOK
  <2>3. UNCHANGED value
    BY <1>3 DEF NextOption
  <2> QED BY <1>0, <2>1, <2>2, <2>3 DEF ValuesSet
<1>4. CASE ChooseSize \/ CompareBlock \/ Halve \/ CompareOne \/ UNCHANGED vars
  BY <1>4 DEF ChooseSize, CompareBlock, Halve, CompareOne, vars, ValuesSet, Begun
<1> QED
  BY <1>1, <1>2, <1>3, <1>4 DEF Next

\* A place names its option, and neither it nor a value beside it names another.
LEMMA PlaceFacts ==
  ASSUME TypeOK, WellFormed, NEW o \in 1..5, NEW k \in Places(specifiers[o])
  PROVE  /\ k \in 1..Len(given) /\ given[k] = specifiers[o]
         /\ o = 1 => k < Len(given)
         /\ \A p \in 1..5 : k \in Places(specifiers[p]) => p = o
         /\ k - 1 \notin Places(specifiers[1]) \cup Places(specifiers[4])
         /\ o \in {1, 4} => \A p \in 1..5 : k + 1 \notin Places(specifiers[p])
<1>0. \A p, q \in 1..5 : specifiers[p] = specifiers[q] => p = q
  <2>1. \A p \in 1..5 : p = 1 \/ p = 2 \/ p = 3 \/ p = 4 \/ p = 5
    OBVIOUS
  <2> QED BY <2>1, OptionFacts
<1>1. k \in 1..Len(given) /\ given[k] = specifiers[o] /\ Len(given) \in Nat
  BY DEF Places, TypeOK
<1>2. o = 1 => k < Len(given)
  BY OptionFacts DEF Places
<1>3. \A p \in 1..5 : k \in Places(specifiers[p]) => p = o
  BY <1>0, <1>1 DEF Places
<1>4. \A p \in 1..5 : specifiers[p] \in Options
  BY DEF Options
<1>5. k - 1 \notin Places(specifiers[1]) \cup Places(specifiers[4])
  <2> SUFFICES ASSUME k - 1 \in Places(specifiers[1]) \cup Places(specifiers[4]) PROVE FALSE
    OBVIOUS
  <2>1. k - 1 \in 1..Len(given) /\ given[k - 1] \in {"-n", "-benchmark"}
    BY OptionFacts DEF Places
  <2>2. k \in 2..Len(given)
    BY <1>1, <2>1
  <2> QED BY <1>1, <1>4, <2>1, <2>2 DEF WellFormed
<1>6. ASSUME o \in {1, 4}, NEW p \in 1..5, k + 1 \in Places(specifiers[p]) PROVE FALSE
  <2>1. k + 1 \in 1..Len(given) /\ given[k + 1] = specifiers[p]
    BY <1>6 DEF Places
  <2>2. k + 1 \in 2..Len(given) /\ k + 1 - 1 = k
    BY <1>1, <2>1
  <2>3. given[k] \in {"-n", "-benchmark"}
    BY <1>1, <1>6, OptionFacts
  <2>4. PICK m \in 2..Len(given) : m = k + 1 /\ m - 1 = k
    BY <1>1, <2>2
  <2>5. given[m - 1] \in {"-n", "-benchmark"} => given[m] \notin Options
    BY DEF WellFormed
  <2> QED BY <1>4, <2>1, <2>3, <2>4, <2>5
<1> QED
  BY <1>1, <1>2, <1>3, <1>5, <1>6

\* Where a loop looks, nothing it looks for has been blanked by another.
LEMMA LookFacts ==
  ASSUME TypeOK, WellFormed, Blanked, IntArg \/ BoolArg \/ Benchmark
  PROVE  /\ argv[i] = specifiers[option] <=> i \in Places(specifiers[option])
         /\ i \in Places(specifiers[option]) /\ option \in {1, 4} =>
              After(i) = IF i < Len(argv) THEN argv[i + 1] ELSE ""
<1>1. Looking /\ option \in 1..5 /\ i \in 1..Len(given) /\ Len(argv) = Len(given)
      /\ (option = 1 => i < Len(given))
  BY LookStep, LookingFacts DEF TypeOK
<1>2. specifiers[option] # ""
  BY <1>1, OptionFacts DEF Options
<1>3. ASSUME argv[i] = specifiers[option] PROVE i \in Places(specifiers[option])
  <2>1. given[i] = specifiers[option]
    BY <1>1, <1>2, <1>3 DEF Blanked
  <2>2. specifiers[option] = "-n" => option = 1
    <3>1. option = 1 \/ option = 2 \/ option = 3 \/ option = 4 \/ option = 5
      BY <1>1
    <3> QED BY <3>1, OptionFacts
  <2> QED BY <1>1, <2>1, <2>2 DEF Places
<1>4. ASSUME i \in Places(specifiers[option]) PROVE argv[i] = specifiers[option]
  <2>1. \A o \in 1..5 : i \in Seen(o) => o = option
    BY <1>1, <1>4, PlaceFacts DEF Seen
  <2>2. i \notin Seen(option)
    BY <1>1 DEF Seen, Passed
  <2>3. i - 1 \notin Seen(1) \cup Seen(4)
    BY <1>1, <1>4, PlaceFacts DEF Seen
  <2>4. ~Consumed(i)
    BY <2>1, <2>2, <2>3 DEF Consumed
  <2>5. given[i] = specifiers[option]
    BY <1>1, <1>4, PlaceFacts
  <2> QED BY <1>1, <2>4, <2>5 DEF Blanked
<1>5. ASSUME i \in Places(specifiers[option]), option \in {1, 4}, i < Len(given)
      PROVE  argv[i + 1] = given[i + 1]
  <2>1. \A o \in 1..5 : i + 1 \notin Seen(o)
    BY <1>1, <1>5, PlaceFacts DEF Seen
  <2>2. \A o \in {1, 4} : i \in Seen(o) => o = option
    BY <1>1, <1>5, PlaceFacts DEF Seen
  <2>3. i \notin Seen(option)
    BY <1>1 DEF Seen, Passed
  <2>4. i + 1 - 1 = i /\ i + 1 \in 1..Len(given)
    BY <1>1, <1>5
  <2>5. PICK k \in 1..Len(given) : k = i + 1 /\ k - 1 = i
    BY <1>1, <1>5, <2>4
  <2>6. i \notin Seen(1) /\ i \notin Seen(4)
    BY <2>2, <2>3
  <2>7. k - 1 \notin Seen(1) \cup Seen(4)
    BY <2>5, <2>6
  <2>8. ~Consumed(k)
    BY <2>1, <2>5, <2>7 DEF Consumed
  <2> QED BY <2>5, <2>8 DEF Blanked
<1> QED
  BY <1>1, <1>3, <1>4, <1>5 DEF After

\* The value set there is the one that is meant.
LEMMA LookMeant ==
  ASSUME TypeOK, WellFormed, Blanked, IntArg \/ BoolArg \/ Benchmark
  PROVE  IF i \in Places(specifiers[option])
         THEN /\ SetValue(Meaning(specifiers[option], i))
              /\ Take(IF option \in {1, 4} THEN {i, i + 1} ELSE {i})
         ELSE UNCHANGED <<argv, value>>
<1>1. Looking
  BY LookStep
<1>2. Here <=> i \in Places(specifiers[option])
  BY LookFacts DEF Here
<1>3. CASE IntArg
  <2>1. option = 1 /\ specifiers[option] = "-n"
    BY <1>1, <1>3, LookingFacts, OptionFacts DEF IntArg, LookAt
  <2>2. i < Len(argv)
    BY <1>3, <2>1, LookStep, LookingFacts DEF TypeOK
  <2>3. Here => Meaning(specifiers[option], i) = atoi(argv[i + 1])
    BY <1>2, <2>1, <2>2, LookFacts DEF Meaning
  <2> QED BY <1>2, <1>3, <2>1, <2>3, Zenon DEF IntArg, PassBy
<1>4. CASE BoolArg
  <2>1. option \in {2, 3, 5} /\ option \notin {1, 4}
    BY <1>1, <1>4, LookingFacts DEF BoolArg, LookAt
  <2>2. specifiers[option] \notin {"-n", "-benchmark"}
    BY <2>1, OptionFacts
  <2>3. Meaning(specifiers[option], i) = 1
    BY <2>2 DEF Meaning
  <2> QED BY <1>2, <1>4, <2>1, <2>3 DEF BoolArg, PassBy
<1>5. CASE Benchmark
  <2>1. option = 4 /\ specifiers[option] = "-benchmark"
    BY <1>1, <1>5, LookingFacts, OptionFacts DEF Benchmark, LookAt
  <2> DEFINE next == IF i < Len(argv) THEN argv[i + 1] ELSE ""
             set == IF next = "short" THEN 1 ELSE IF next = "long" THEN 3 ELSE 2
  <2>2. Here => After(i) = next
    BY <1>2, <2>1, LookFacts
  <2>3. \/ Here /\ Take({i, i + 1}) /\ SetValue(set)
        \/ PassBy
    BY <1>5 DEF Benchmark
  <2> HIDE DEF next
  <2>4. Here => Meaning(specifiers[option], i) = set
    BY <2>1, <2>2 DEF Meaning
  <2> HIDE DEF set
  <2> QED BY <1>2, <2>1, <2>3, <2>4 DEF PassBy
<1> QED
  BY <1>3, <1>4, <1>5

\* Looking at an argument adds it to the places seen, if it is one.
LEMMA SeenStep ==
  ASSUME TypeOK, WellFormed, IntArg \/ BoolArg \/ Benchmark, NEW o \in 1..5
  PROVE  Seen(o)' = Seen(o) \cup (IF o = option THEN {i} \cap Places(specifiers[o]) ELSE {})
<1>1. UNCHANGED <<given, option>> /\ i' = i + 1 /\ i \in Nat /\ option \in 1..6
  BY LookStep DEF TypeOK
<1>2. Places(specifiers[o])' = Places(specifiers[o])
  BY <1>1 DEF Places
<1>3. \A k \in Places(specifiers[o]) : k \in Nat
  BY DEF Places, TypeOK
<1>4. \A k \in Nat : Passed(o, k)' <=> Passed(o, k) \/ (o = option /\ k = i)
  BY <1>1 DEF Passed
<1> QED
  BY <1>2, <1>3, <1>4 DEF Seen

\* Between the loops no place is seen.
LEMMA SeenSame ==
  ASSUME TypeOK, BeginOption \/ NextOption, NEW o \in 1..5
  PROVE  Seen(o)' = Seen(o)
<1>0. UNCHANGED given /\ option \in 1..5 /\ i \in Nat /\ Len(given) \in Nat
  BY LookingFacts DEF BeginOption, NextOption, TypeOK
<1>1. Places(specifiers[o])' = Places(specifiers[o])
  BY <1>0 DEF Places
<1>2. \A k \in Places(specifiers[o]) : k \in 1..Len(given) /\ (o = 1 => k < Len(given))
  BY OptionFacts DEF Places
<1>3. ASSUME BeginOption, NEW k \in Places(specifiers[o]) PROVE Passed(o, k)' <=> Passed(o, k)
  BY <1>2, <1>3 DEF BeginOption, Passed, TypeOK
<1>4. ASSUME NextOption, NEW k \in Places(specifiers[o]) PROVE Passed(o, k)' <=> Passed(o, k)
  <2>1. i > Last /\ option' = option + 1 /\ i' = 0
    BY <1>4 DEF NextOption
  <2>2. Last = IF option = 1 THEN Len(given) - 1 ELSE Len(given)
    BY <1>4, LookingFacts DEF NextOption, TypeOK
  <2>3. o = option => k < i
    BY <1>0, <1>2, <2>1, <2>2
  <2> QED BY <1>0, <1>2, <2>1, <2>3 DEF Passed
<1> QED
  BY <1>1, <1>3, <1>4 DEF Seen

\* Nothing but the loops touches what they have settled.
LEMMA SeenElse ==
  ASSUME UNCHANGED <<given, option, i>>
  PROVE  /\ \A o : Seen(o)' = Seen(o)
         /\ \A k : Consumed(k)' <=> Consumed(k)
  BY DEF Seen, Consumed, Places, Passed

\* Every step blanks what it should.
LEMMA BlankedStep ==
  ASSUME IInv, [Next]_vars, WellFormed
  PROVE  Blanked'
<1> TypeOK /\ Blanked
  BY DEF IInv
<1>1. CASE IntArg \/ BoolArg \/ Benchmark
  <2>1. UNCHANGED given /\ option \in 1..5 /\ i \in 1..Len(given) /\ Len(argv) = Len(given)
    BY <1>1, LookStep, LookingFacts DEF TypeOK
  <2>2. CASE i \notin Places(specifiers[option])
    <3>1. UNCHANGED argv
      BY <1>1, <2>2, LookMeant
    <3>2. \A o \in 1..5 : Seen(o)' = Seen(o)
      BY <1>1, <2>2, SeenStep
    <3>3. \A k : Consumed(k)' <=> Consumed(k)
      BY <3>2 DEF Consumed
    <3> QED BY <2>1, <3>1, <3>3 DEF Blanked
  <2>3. CASE i \in Places(specifiers[option])
    <3>1. \A k \in 1..Len(given) :
            argv'[k] = IF k \in (IF option \in {1, 4} THEN {i, i + 1} ELSE {i})
                       THEN "" ELSE argv[k]
      <4>1. Take(IF option \in {1, 4} THEN {i, i + 1} ELSE {i})
        BY <1>1, <2>3, LookMeant
      <4> QED BY <2>1, <4>1, TakeType
    <3>2. \A o \in 1..5 : Seen(o)' = Seen(o) \cup (IF o = option THEN {i} ELSE {})
      BY <1>1, <2>3, SeenStep
    <3>3. \A k \in 1..Len(given) :
            Consumed(k)' <=> Consumed(k) \/ k = i \/ (option \in {1, 4} /\ k = i + 1)
      BY <2>1, <3>2 DEF Consumed
    <3> QED BY <2>1, <3>1, <3>3 DEF Blanked
  <2> QED BY <2>2, <2>3
<1>2. CASE BeginOption \/ NextOption
  <2>1. UNCHANGED <<given, argv>>
    BY <1>2 DEF BeginOption, NextOption
  <2>2. \A k : Consumed(k)' <=> Consumed(k)
    BY <1>2, SeenSame DEF Consumed
  <2> QED BY <2>1, <2>2 DEF Blanked
<1>3. CASE ChooseSize \/ CompareBlock \/ Halve \/ CompareOne \/ UNCHANGED vars
  <2>1. UNCHANGED <<given, argv, option, i>>
    BY <1>3 DEF ChooseSize, CompareBlock, Halve, CompareOne, vars
  <2> QED BY <2>1, SeenElse DEF Blanked
<1> QED
  BY <1>1, <1>2, <1>3 DEF Next

\* An option nobody touches keeps its meaning.
LEMMA MeansKeeps ==
  ASSUME UNCHANGED given, NEW o \in 1..5, Means(o), Seen(o)' = Seen(o),
         value'[specifiers[o]] = value[specifiers[o]]
  PROVE  Means(o)'
<1>1. \A k : Meaning(specifiers[o], k)' = Meaning(specifiers[o], k)
  BY DEF Meaning, After
<1> QED
  BY <1>1 DEF Means

\* Every step gives the option looked for the value of its last place.
LEMMA MeantStep ==
  ASSUME IInv, [Next]_vars, WellFormed
  PROVE  ValuesMeant'
<1> TypeOK /\ Blanked /\ ValuesMeant
  BY DEF IInv
<1>0. \A o \in 1..5 : specifiers[o] \in Options
  BY DEF Options
<1>1. CASE IntArg \/ BoolArg \/ Benchmark
  <2>1. UNCHANGED <<given, option>> /\ option \in 1..5 /\ i \in Nat \ {0} /\ i' = i + 1
    BY <1>1, LookStep, LookingFacts DEF TypeOK
  <2>2. \A o \in 1..5 : Begun(o)' <=> Begun(o)
    BY <2>1 DEF Begun
  <2>3. Means(option)
    BY <2>1 DEF ValuesMeant, Begun
  <2>4. CASE i \notin Places(specifiers[option])
    <3>1. UNCHANGED value
      BY <1>1, <2>4, LookMeant
    <3>2. \A o \in 1..5 : Seen(o)' = Seen(o)
      BY <1>1, <2>4, SeenStep
    <3> QED BY <2>1, <2>2, <3>1, <3>2, MeansKeeps DEF ValuesMeant
  <2>5. CASE i \in Places(specifiers[option])
    <3>1. \A o \in 1..5 : value'[specifiers[o]] = IF o = option THEN Meaning(specifiers[option], i)
                                                  ELSE value[specifiers[o]]
      BY <1>0, <1>1, <2>1, <2>5, LookMeant, LookStep, LookingFacts DEF SetValue, TypeOK
    <3>2. \A o \in 1..5 : Seen(o)' = Seen(o) \cup (IF o = option THEN {i} ELSE {})
      BY <1>1, <2>5, SeenStep
    <3>3. ASSUME NEW o \in 1..5, o # option, Means(o) PROVE Means(o)'
      BY <2>1, <3>1, <3>2, <3>3, MeansKeeps
    <3>4. ASSUME NEW o \in 1..5, o = option PROVE Means(o)'
      <4>1. i \in Seen(o)' /\ \A k \in Seen(o)' : k # i => k \in Seen(o)
        BY <3>2, <3>4
      <4>2. \A k \in Seen(o) : k < i /\ k \in Nat
        BY <2>1, <3>4 DEF Seen, Passed, Places, TypeOK
      <4>3. ASSUME NEW k \in Seen(o)', \A j \in Seen(o)' : j <= k PROVE k = i
        <5> SUFFICES ASSUME k # i PROVE FALSE
          OBVIOUS
        <5>1. k \in Seen(o) /\ i <= k
          BY <4>1, <4>3
        <5> QED BY <2>1, <4>2, <5>1
      <4>4. \A k : Meaning(specifiers[o], k)' = Meaning(specifiers[o], k)
        BY <2>1 DEF Meaning, After
      <4>5. \A k : k = i => value'[specifiers[o]] = Meaning(specifiers[o], k)
        BY <3>1, <3>4
      <4> QED BY <4>1, <4>3, <4>4, <4>5 DEF Means
    <3> QED BY <2>1, <2>2, <3>3, <3>4 DEF ValuesMeant
  <2> QED BY <2>4, <2>5
<1>2. CASE BeginOption
  <2>1. option' = option /\ option \in 1..5 /\ i = 0 /\ i' = 1 /\ UNCHANGED given
    BY <1>2, LookingFacts DEF BeginOption
  <2>2. \A o \in 1..5 : Begun(o)' => Begun(o) \/ o = option
    BY <2>1 DEF Begun
  <2>3. \A o \in 1..5 : value'[specifiers[o]] = IF o = option /\ o # 1 THEN 0
                                                 ELSE value[specifiers[o]]
    BY <1>0, <1>2, <2>1, LookingFacts DEF BeginOption, SetValue, TypeOK
  <2>4. ASSUME NEW o \in 1..5, o # option \/ o = 1, Means(o) PROVE Means(o)'
    BY <1>2, <2>1, <2>3, <2>4, SeenSame, MeansKeeps
  <2>5. ASSUME NEW o \in 1..5, o = option, o # 1 PROVE Means(o)'
    <3>1. Seen(o)' = {}
      <4>1. Seen(o) = {}
        BY <2>1, <2>5 DEF Seen, Passed, Places, TypeOK
      <4> QED BY <1>2, <4>1, SeenSame
    <3>2. Default(specifiers[o]) = 0
      <4>1. specifiers[o] # "-n"
        <5>1. o = 2 \/ o = 3 \/ o = 4 \/ o = 5
          BY <2>5
        <5> QED BY <5>1, OptionFacts
      <4> QED BY <4>1 DEF Default
    <3> QED BY <2>3, <2>5, <3>1, <3>2 DEF Means
  <2> QED BY <2>1, <2>2, <2>4, <2>5 DEF ValuesMeant
<1>3. CASE NextOption
  <2>1. option' = option + 1 /\ i' = 0 /\ i > 0 /\ UNCHANGED <<given, value>>
    BY <1>3 DEF NextOption, TypeOK
  <2>2. \A o \in 1..5 : Begun(o)' => Begun(o)
    BY <2>1 DEF Begun, TypeOK
  <2> QED BY <1>3, <2>1, <2>2, SeenSame, MeansKeeps DEF ValuesMeant
<1>4. CASE ChooseSize \/ CompareBlock \/ Halve \/ CompareOne \/ UNCHANGED vars
  <2>1. UNCHANGED <<given, value, option, i>>
    BY <1>4 DEF ChooseSize, CompareBlock, Halve, CompareOne, vars
  <2>2. \A o \in 1..5 : Begun(o)' <=> Begun(o)
    BY <2>1 DEF Begun
  <2> QED BY <2>1, <2>2, SeenElse, MeansKeeps DEF ValuesMeant
<1> QED
  BY <1>1, <1>2, <1>3, <1>4 DEF Next

-----------------------------------------------------------------------------
(* invalid_input *)

\* Halving doubles the power, which stays within those of ints.
LEMMA HalvingFacts ==
  ASSUME NEW size \in Ints, NEW left \in Nat, left >= 1, left % 2 = 0,
         NEW k \in 0..30, size = left * Power[k]
  PROVE  /\ left \div 2 \in Nat /\ left \div 2 >= 1 /\ k + 1 \in 0..30
         /\ size = (left \div 2) * Power[k + 1]
<1> DEFINE half == left \div 2
           p == Power[k]
<1>1. half \in Nat /\ left = 2 * half /\ half >= 1
  OBVIOUS
<1>2. k # 30
  <2>1. size < 2 * Power[30] /\ Power[30] \in Nat /\ Power[30] > 0
    BY IntFacts, PowerFacts, SMT
  <2>2. k = 30 => size = half * (2 * Power[30])
    BY <1>1, <2>1
  <2> QED BY <1>1, <2>1, <2>2
<1>3. k + 1 \in 1..30 /\ k + 1 - 1 = k
  BY <1>2
<1>4. Power[k + 1] = 2 * p /\ p \in Nat
  <2>1. \A m \in 0..30 : Power[m] \in Nat
    BY PowerFacts, SMT
  <2> QED BY <1>3, <2>1, PowerFacts, SMT
<1> HIDE DEF half, p
<1>5. size = half * (2 * p)
  BY <1>1, <1>4 DEF p
<1> QED
  BY <1>1, <1>3, <1>4, <1>5 DEF half

\* Every step keeps the size the part left times a power of two.
LEMMA HalvingStep ==
  ASSUME IInv, [Next]_vars
  PROVE  Halving'
<1> TypeOK /\ Halving
  BY DEF IInv
<1>1. CASE CompareBlock
  <2>1. n \in Int
    BY IntFacts DEF TypeOK
  <2>2. pc' = "halve" => n >= BLOCK_SIZE /\ n >= 1
    BY <1>1, <2>1 DEF CompareBlock, BLOCK_SIZE
  <2>3. n = n * Power[0]
    BY <2>1, PowerFacts, SMT
  <2>4. n' = n /\ v' = n /\ pc' # "allocate"
    BY <1>1 DEF CompareBlock
  <2> QED BY <2>2, <2>3, <2>4 DEF Halving
<1>2. CASE Halve
  <2>1. /\ n \in Ints /\ n >= BLOCK_SIZE /\ v >= 1 /\ v % 2 = 0 /\ v \in Nat
        /\ \E k \in 0..30 : n = v * Power[k]
        /\ v' = v \div 2 /\ n' = n /\ pc' = "halve"
    BY <1>2, IntFacts DEF Halve, Halving, TypeOK
  <2>2. PICK k \in 0..30 : n = v * Power[k]
    BY <2>1
  <2>3. v' >= 1 /\ k + 1 \in 0..30 /\ n = v' * Power[k + 1]
    BY <2>1, <2>2, HalvingFacts
  <2> QED BY <2>1, <2>3 DEF Halving
<1>3. CASE CompareOne
  BY <1>3 DEF CompareOne, Halving
<1>4. CASE BeginOption \/ IntArg \/ BoolArg \/ Benchmark \/ NextOption \/ ChooseSize \/ UNCHANGED vars
  <2>1. \/ UNCHANGED <<pc, n, v>>
        \/ pc' \notin {"halve", "allocate"}
    BY <1>4, LookStep DEF BeginOption, NextOption, ChooseSize, vars
  <2> QED BY <2>1 DEF Halving
<1> QED
  BY <1>1, <1>2, <1>3, <1>4 DEF Next

-----------------------------------------------------------------------------

\* The invariant holds throughout.
LEMMA Invariance == Spec => []IInv
<1>1. ASSUME IInv, [Next]_vars PROVE IInv'
  <2>1. WellFormed' => WellFormed
    BY <1>1, LookStep DEF IInv, Next, vars, BeginOption, NextOption, ChooseSize, CompareBlock,
                          Halve, CompareOne, WellFormed
  <2> QED BY <1>1, <2>1, TypeStep, ValuesStep, BlankedStep, MeantStep, HalvingStep DEF IInv
<1> QED
  BY <1>1, InitInv, PTL DEF Spec

\* Of a command line of any length in which no option stands in the place of a value,
\* get_options gives every option the value of its last place or its default, and reports
\* the words that are neither an option nor a value, and no others (getoptions.c:20-93).
THEOREM OptionsAsGivenCorrect == Spec => []OptionsAsGiven
<1>1. ASSUME IInv PROVE OptionsAsGiven
  <2> SUFFICES ASSUME Done, WellFormed
               PROVE  /\ \A o \in Options :
                           /\ Places(o) = {} => value[o] = Default(o)
                           /\ \A k \in Places(o) :
                                (\A j \in Places(o) : j <= k) => value[o] = Meaning(o, k)
                      /\ \A k \in 1..Len(given) :
                           argv[k] = IF \/ \E o \in Options : k \in Places(o)
                                        \/ k - 1 \in Places("-n") \cup Places("-benchmark")
                                     THEN "" ELSE given[k]
    BY DEF OptionsAsGiven
  <2>1. option = 6 /\ Blanked /\ ValuesMeant
    <3>1. Len(specifiers) = 5
      BY OptionFacts
    <3> QED BY <1>1, <3>1 DEF Done, IInv, TypeOK
  <2>2. \A o \in 1..5 : Seen(o) = Places(specifiers[o]) /\ Begun(o)
    BY <2>1 DEF Seen, Passed, Begun
  <2>3. ASSUME NEW o \in Options
        PROVE  /\ Places(o) = {} => value[o] = Default(o)
               /\ \A k \in Places(o) : (\A j \in Places(o) : j <= k) => value[o] = Meaning(o, k)
    <3>1. PICK p \in 1..5 : o = specifiers[p]
      BY DEF Options
    <3>2. Means(p) /\ Seen(p) = Places(o)
      BY <2>1, <2>2, <3>1 DEF ValuesMeant
    <3> QED BY <3>1, <3>2 DEF Means
  <2>4. ASSUME NEW k \in 1..Len(given)
        PROVE  Consumed(k) <=> \/ \E o \in Options : k \in Places(o)
                               \/ k - 1 \in Places("-n") \cup Places("-benchmark")
    <3>1. (\E o \in 1..5 : k \in Seen(o)) <=> \E o \in Options : k \in Places(o)
      BY <2>2 DEF Options
    <3>2. Seen(1) = Places("-n") /\ Seen(4) = Places("-benchmark")
      <4>1. specifiers[1] = "-n" /\ specifiers[4] = "-benchmark"
        BY OptionFacts
      <4> QED BY <2>2, <4>1
    <3> QED BY <3>1, <3>2 DEF Consumed
  <2> QED BY <2>1, <2>3, <2>4 DEF Blanked
<1> QED
  BY <1>1, Invariance, PTL

\* Whatever size is asked for, what g_main allocates and hands to lu is a power of two
\* of blocks per side (lu_para.c:481-495, 540).
THEOREM SizeDecomposableCorrect == Spec => []SizeDecomposable
<1>1. ASSUME IInv PROVE SizeDecomposable
  <2> SUFFICES ASSUME pc = "allocate"
               PROVE  \E k \in 0..30 : nBlocks = Power[k] /\ n = Power[k] * BLOCK_SIZE
    BY DEF SizeDecomposable
  <2>1. n >= 16 /\ \E k \in 0..30 : n = Power[k]
    <3>1. \A k \in 0..30 : Power[k] \in Int
      BY PowerFacts, SMT
    <3> QED BY <1>1, <3>1 DEF IInv, Halving, BLOCK_SIZE
  <2>2. PICK k \in 0..30 : n = Power[k]
    BY <2>1
  <2>3. /\ Power[0] = 1 /\ Power[1] = 2 /\ Power[2] = 4 /\ Power[3] = 8
        /\ \A m \in 0..30 : Power[m] \in Nat
    BY PowerFacts, SMT
  <2>4. k \in 4..30
    BY <2>1, <2>2, <2>3, SMT
  <2>5. Power[k] = 16 * Power[k - 4] /\ k - 4 \in 0..30
    <3>1. /\ Power[k] = 2 * Power[k - 1] /\ Power[k - 1] = 2 * Power[k - 2]
          /\ Power[k - 2] = 2 * Power[k - 3] /\ Power[k - 3] = 2 * Power[k - 4]
      BY <2>4, PowerFacts, SMT
    <3> QED BY <2>3, <2>4, <3>1, SMT
  <2>6. nBlocks = Power[k - 4] /\ n = Power[k - 4] * BLOCK_SIZE
    BY <2>2, <2>3, <2>5, SMT DEF nBlocks, BLOCK_SIZE
  <2> QED BY <2>5, <2>6
<1> QED
  BY <1>1, Invariance, PTL
=============================================================================
