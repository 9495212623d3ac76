--------------------------- MODULE WireFormatProofs ---------------------------
(***************************************************************************)
(* Messages survive their frames, and frames that were damaged are refused *)
(* or taken as they are, for all JSON objects and all buffers.             *)
(***************************************************************************)
EXTENDS WireFormat, SequenceTheorems, WellFoundedInduction, TLAPS

------------------------------------------------------------------------------
(* Sequences of sequences. *)

\* A non-empty set of numbers has a least element.
LEMMA LeastNumber ==
    ASSUME NEW S, S \subseteq Nat, S # {}
    PROVE  \E e \in S : \A f \in S : e <= f
<1>1. \E x \in S : \A y \in S : ~(<<y, x>> \in OpToRel(<, Nat))
    BY NatLessThanWellFounded, WFMin, Zenon
<1>2. PICK x \in S : \A y \in S : ~(<<y, x>> \in OpToRel(<, Nat))
    BY <1>1, Zenon
<1>3. ASSUME NEW y \in S PROVE x <= y
    <2>1. ~(y < x)
        BY <1>2 DEF OpToRel
    <2>. QED  BY <2>1
<1>. QED  BY <1>3

\* A set of numbers that goes on from each of its members has all of them.
LEMMA Counting ==
    ASSUME NEW S, 0 \in S, \A n \in Nat : n \in S => n + 1 \in S
    PROVE  \A n \in Nat : n \in S
<1>. DEFINE Missing == Nat \ S
<1>1. SUFFICES ASSUME Missing # {} PROVE FALSE
    OBVIOUS
<1>2. Missing \subseteq Nat
    OBVIOUS
<1>. HIDE DEF Missing
<1>3. PICK x \in Missing : \A y \in Missing : x <= y
    BY <1>1, <1>2, LeastNumber
<1>4. x # 0 /\ x \in Nat /\ x \notin S
    BY <1>3 DEF Missing
<1>5. x - 1 \in Nat /\ x - 1 \notin Missing /\ (x - 1) + 1 = x
    BY <1>3, <1>4
<1>. QED  BY <1>4, <1>5 DEF Missing

\* The function that FlattenSeq is defined by.
Flattens(f, seqs, n) ==
    f = [i \in 1..n |-> IF i = 1 THEN seqs[i] ELSE f[i - 1] \o seqs[i]]

LEMMA FlattensExists ==
    ASSUME NEW seqs
    PROVE  \A n \in Nat : \E f : Flattens(f, seqs, n)
<1>. DEFINE S == {n \in Nat : \E f : Flattens(f, seqs, n)}
<1>1. 0 \in S
    <2>1. Flattens([i \in 1..0 |-> 0], seqs, 0)
        BY DEF Flattens
    <2>. QED  BY <2>1
<1>2. ASSUME NEW n \in Nat, n \in S PROVE n + 1 \in S
    <2>1. PICK f : Flattens(f, seqs, n)
        BY <1>2
    <2>. DEFINE next == IF n + 1 = 1 THEN seqs[n + 1] ELSE f[n] \o seqs[n + 1]
                g == [i \in 1..(n + 1) |-> IF i = n + 1 THEN next ELSE f[i]]
                h == [i \in 1..(n + 1) |-> IF i = 1 THEN seqs[i] ELSE g[i - 1] \o seqs[i]]
    <2>2. \A i \in 1..n : f[i] = IF i = 1 THEN seqs[i] ELSE f[i - 1] \o seqs[i]
        BY <2>1 DEF Flattens
    <2>. HIDE DEF next
    <2>3. \A i \in 1..n : g[i] = f[i] /\ i # n + 1
        OBVIOUS
    <2>4. g[n + 1] = next
        OBVIOUS
    <2>5. ASSUME NEW i \in 1..(n + 1) PROVE g[i] = h[i]
        <3>1. h[i] = IF i = 1 THEN seqs[i] ELSE g[i - 1] \o seqs[i]
            OBVIOUS
        <3>2. i = n + 1 \/ i \in 1..n
            OBVIOUS
        <3>. HIDE DEF g, h
        <3>3. CASE i = 1
            <4>1. CASE n = 0
                <5>1. next = seqs[n + 1]
                    BY <4>1 DEF next
                <5>. QED  BY <2>4, <3>1, <3>3, <4>1, <5>1
            <4>2. CASE n # 0
                <5>1. i \in 1..n
                    BY <3>3, <4>2
                <5>. QED  BY <2>2, <2>3, <3>1, <3>3, <5>1
            <4>. QED  BY <4>1, <4>2
        <3>4. CASE i # 1 /\ i \in 1..n
            <4>1. i - 1 \in 1..n
                BY <3>4
            <4>. QED  BY <2>2, <2>3, <3>1, <3>4, <4>1
        <3>5. CASE i # 1 /\ i = n + 1
            <4>1. n \in 1..n /\ i - 1 = n /\ n + 1 # 1
                BY <3>5
            <4>2. next = f[n] \o seqs[n + 1]
                BY <4>1 DEF next
            <4>. QED  BY <2>3, <2>4, <3>1, <3>5, <4>1, <4>2
        <3>. QED  BY <3>2, <3>3, <3>4, <3>5
    <2>6. g = h
        BY <2>5
    <2>. HIDE DEF g
    <2>7. Flattens(g, seqs, n + 1)
        BY <2>6 DEF Flattens
    <2>. QED  BY <2>7
<1>3. \A n \in Nat : n \in S
    <2>. HIDE DEF S
    <2>. QED  BY <1>1, <1>2, Counting
<1>. QED  BY <1>3

\* What FlattenSeq yields is reached in steps, one per sequence.
LEMMA FlattenSteps ==
    ASSUME NEW seqs, NEW n \in Nat, Len(seqs) = n, n # 0
    PROVE  \E f : Flattens(f, seqs, n) /\ FlattenSeq(seqs) = f[n]
<1>. DEFINE f == CHOOSE f : f = [i \in 1..Len(seqs) |->
                                   IF i = 1 THEN seqs[i] ELSE f[i - 1] \o seqs[i]]
<1>1. FlattenSeq(seqs) = f[Len(seqs)]
    BY DEF FlattenSeq
<1>2. \E g : g = [i \in 1..Len(seqs) |->
                    IF i = 1 THEN seqs[i] ELSE g[i - 1] \o seqs[i]]
    BY FlattensExists, Zenon DEF Flattens
<1>3. f = [i \in 1..Len(seqs) |-> IF i = 1 THEN seqs[i] ELSE f[i - 1] \o seqs[i]]
    BY <1>2, Zenon
<1>. HIDE DEF f
<1>4. Flattens(f, seqs, Len(seqs))
    BY <1>3, Zenon DEF Flattens
<1>. QED  BY <1>1, <1>4

LEMMA FlattensStep ==
    ASSUME NEW f, NEW seqs, NEW n \in Nat, Flattens(f, seqs, n), NEW i \in 1..n
    PROVE  f[i] = IF i = 1 THEN seqs[i] ELSE f[i - 1] \o seqs[i]
BY DEF Flattens

LEMMA FlattensTyped ==
    ASSUME NEW seqs \in Seq(Seq(Byte)), NEW n \in Nat, n = Len(seqs),
           NEW f, Flattens(f, seqs, n)
    PROVE  \A i \in 1..n : f[i] \in Seq(Byte)
<1>. DEFINE S == {i \in Nat : i \in 1..n => f[i] \in Seq(Byte)}
<1>1. 0 \in S
    OBVIOUS
<1>2. ASSUME NEW i \in Nat, i \in S PROVE i + 1 \in S
    <2>1. SUFFICES ASSUME i + 1 \in 1..n PROVE f[i + 1] \in Seq(Byte)
        OBVIOUS
    <2>2. seqs[i + 1] \in Seq(Byte)
        BY <2>1
    <2>3. f[i + 1] = IF i + 1 = 1 THEN seqs[i + 1] ELSE f[(i + 1) - 1] \o seqs[i + 1]
        BY <2>1, FlattensStep
    <2>4. CASE i = 0
        BY <2>2, <2>3, <2>4
    <2>5. CASE i # 0
        <3>1. f[i] \in Seq(Byte) /\ (i + 1) - 1 = i
            BY <1>2, <2>1, <2>5
        <3>. QED  BY <2>2, <2>3, <2>5, <3>1
    <2>. QED  BY <2>4, <2>5
<1>3. \A i \in Nat : i \in S
    <2>. HIDE DEF S
    <2>. QED  BY <1>1, <1>2, Counting
<1>. QED  BY <1>3

LEMMA FlattenNothing == FlattenSeq(<<>>) = <<>>
BY DEF FlattenSeq

LEMMA FlattenTyped ==
    ASSUME NEW seqs \in Seq(Seq(Byte))
    PROVE  FlattenSeq(seqs) \in Seq(Byte)
<1>1. PICK n \in Nat : n = Len(seqs)
    OBVIOUS
<1>2. CASE n = 0
    <2>1. seqs = <<>> /\ <<>> \in Seq(Byte)
        BY <1>1, <1>2, EmptySeq
    <2>. QED  BY <2>1, FlattenNothing
<1>3. CASE n # 0
    <2>1. PICK f : Flattens(f, seqs, n) /\ FlattenSeq(seqs) = f[n]
        BY <1>1, <1>3, FlattenSteps
    <2>2. n \in 1..n
        BY <1>3
    <2>. QED  BY <1>1, <2>1, <2>2, FlattensTyped
<1>. QED  BY <1>2, <1>3

\* One sequence more is put behind what the others yield.
LEMMA FlattenAppend ==
    ASSUME NEW seqs \in Seq(Seq(Byte)), NEW x \in Seq(Byte)
    PROVE  FlattenSeq(Append(seqs, x)) = FlattenSeq(seqs) \o x
<1>. DEFINE all == Append(seqs, x)
<1>1. PICK n \in Nat : n = Len(seqs)
    OBVIOUS
<1>2. /\ all \in Seq(Seq(Byte)) /\ Len(all) = n + 1 /\ all[n + 1] = x
      /\ \A i \in 1..n : all[i] = seqs[i]
    BY <1>1
<1>. HIDE DEF all
<1>3. PICK g : Flattens(g, all, n + 1) /\ FlattenSeq(all) = g[n + 1]
    BY <1>1, <1>2, FlattenSteps
<1>4. g[n + 1] = IF n + 1 = 1 THEN all[n + 1] ELSE g[(n + 1) - 1] \o all[n + 1]
    <2>1. n + 1 \in 1..(n + 1) /\ n + 1 \in Nat
        OBVIOUS
    <2>. QED  BY <1>3, <2>1, FlattensStep
<1>5. CASE n = 0
    <2>1. seqs = <<>>
        BY <1>1, <1>5, EmptySeq
    <2>2. FlattenSeq(all) = x
        BY <1>2, <1>3, <1>4, <1>5
    <2>. QED  BY <2>1, <2>2, FlattenNothing DEF all
<1>6. CASE n # 0
    <2>1. PICK f : Flattens(f, seqs, n) /\ FlattenSeq(seqs) = f[n]
        BY <1>1, <1>6, FlattenSteps
    <2>. DEFINE S == {i \in Nat : i \in 1..n => f[i] = g[i]}
    <2>2. 0 \in S
        OBVIOUS
    <2>3. ASSUME NEW i \in Nat, i \in S PROVE i + 1 \in S
        <3>1. SUFFICES ASSUME i + 1 \in 1..n PROVE f[i + 1] = g[i + 1]
            OBVIOUS
        <3>2. f[i + 1] = IF i + 1 = 1 THEN seqs[i + 1] ELSE f[(i + 1) - 1] \o seqs[i + 1]
            BY <2>1, <3>1, FlattensStep
        <3>3. g[i + 1] = IF i + 1 = 1 THEN all[i + 1] ELSE g[(i + 1) - 1] \o all[i + 1]
            <4>1. i + 1 \in 1..(n + 1) /\ n + 1 \in Nat
                BY <3>1
            <4>. QED  BY <1>3, <4>1, FlattensStep
        <3>4. all[i + 1] = seqs[i + 1]
            BY <1>2, <3>1
        <3>5. (i + 1) - 1 = i /\ (i + 1 # 1 => f[i] = g[i])
            BY <2>3, <3>1
        <3>. QED  BY <3>2, <3>3, <3>4, <3>5
    <2>4. \A i \in Nat : i \in S
        <3>. HIDE DEF S
        <3>. QED  BY <2>2, <2>3, Counting
    <2>5. n \in 1..n
        BY <1>6
    <2>6. f[n] = g[n] /\ (n + 1) - 1 = n /\ n + 1 # 1
        BY <1>6, <2>4, <2>5
    <2>. QED  BY <1>2, <1>3, <1>4, <2>1, <2>6 DEF all
<1>. QED  BY <1>5, <1>6

\* What the first i sequences yield.
Upto(seqs, i) == FlattenSeq(SubSeq(seqs, 1, i))

LEMMA UptoSteps ==
    ASSUME NEW seqs \in Seq(Seq(Byte)), NEW n \in Nat, n = Len(seqs)
    PROVE  /\ Upto(seqs, 0) = <<>>
           /\ Upto(seqs, n) = FlattenSeq(seqs)
           /\ \A i \in 0..n : Upto(seqs, i) \in Seq(Byte)
           /\ \A i \in 1..n : Upto(seqs, i) = Upto(seqs, i - 1) \o seqs[i]
<1>1. SubSeq(seqs, 1, 0) = <<>>
    OBVIOUS
<1>2. SubSeq(seqs, 1, n) = seqs
    OBVIOUS
<1>3. \A i \in 0..n : SubSeq(seqs, 1, i) \in Seq(Seq(Byte))
    OBVIOUS
<1>4. ASSUME NEW i \in 1..n
      PROVE  Upto(seqs, i) = Upto(seqs, i - 1) \o seqs[i]
    <2>1. SubSeq(seqs, 1, i) = Append(SubSeq(seqs, 1, i - 1), seqs[i])
        OBVIOUS
    <2>2. i - 1 \in 0..n /\ seqs[i] \in Seq(Byte)
        OBVIOUS
    <2>. QED  BY <1>3, <2>1, <2>2, FlattenAppend DEF Upto
<1>5. \A i \in 0..n : Upto(seqs, i) \in Seq(Byte)
    BY <1>3, FlattenTyped DEF Upto
<1>. QED  BY <1>1, <1>2, <1>4, <1>5, FlattenNothing DEF Upto

\* What the first sequences yield is where it is in what more of them yield.
LEMMA UptoGrows ==
    ASSUME NEW seqs \in Seq(Seq(Byte)), NEW n \in Nat, n = Len(seqs), NEW i \in 0..n
    PROVE  \A j \in i..n :
              /\ Len(Upto(seqs, i)) <= Len(Upto(seqs, j))
              /\ \A k \in 1..Len(Upto(seqs, i)) : Upto(seqs, j)[k] = Upto(seqs, i)[k]
<1>. DEFINE Grown(j) == /\ Len(Upto(seqs, i)) <= Len(Upto(seqs, j))
                        /\ \A k \in 1..Len(Upto(seqs, i)) :
                              Upto(seqs, j)[k] = Upto(seqs, i)[k]
            S == {d \in Nat : i + d \in 0..n => Grown(i + d)}
<1>1. ASSUME NEW j \in 0..n
      PROVE  Upto(seqs, j) \in Seq(Byte) /\ Len(Upto(seqs, j)) \in Nat
    <2>1. Upto(seqs, j) \in Seq(Byte)
        BY UptoSteps, Zenon
    <2>. QED  BY <2>1
<1>2. 0 \in S
    BY <1>1
<1>3. ASSUME NEW d \in Nat, d \in S PROVE d + 1 \in S
    <2>1. SUFFICES ASSUME i + (d + 1) \in 0..n PROVE Grown(i + (d + 1))
        OBVIOUS
    <2>2. PICK j \in 0..n : j = i + d /\ j + 1 \in 1..n /\ i + (d + 1) = j + 1
        BY <2>1
    <2>3. Grown(j)
        BY <1>3, <2>2
    <2>4. Upto(seqs, j + 1) = Upto(seqs, j) \o seqs[j + 1]
        <3>1. (j + 1) - 1 = j
            BY <2>2
        <3>. QED  BY <2>2, <3>1, UptoSteps
    <2>5. Upto(seqs, j) \in Seq(Byte) /\ seqs[j + 1] \in Seq(Byte)
        BY <1>1, <2>2
    <2>. DEFINE a == Upto(seqs, i)
                b == Upto(seqs, j)
                c == seqs[j + 1]
    <2>6. a \in Seq(Byte) /\ Len(a) <= Len(b) /\ \A k \in 1..Len(a) : b[k] = a[k]
        BY <1>1, <2>3
    <2>. HIDE DEF a, b, c
    <2>7. /\ Len(a) <= Len(b \o c)
          /\ \A k \in 1..Len(a) : (b \o c)[k] = a[k]
        <3>1. b \in Seq(Byte) /\ c \in Seq(Byte)
            BY <2>5, Zenon DEF b, c
        <3>. QED  BY <2>6, <3>1
    <2>. QED  BY <2>2, <2>4, <2>7 DEF a, b, c
<1>4. \A d \in Nat : d \in S
    <2>. HIDE DEF S
    <2>. QED  BY <1>2, <1>3, Counting
<1>5. ASSUME NEW j \in i..n PROVE Grown(j)
    <2>1. j - i \in Nat /\ i + (j - i) = j /\ j \in 0..n
        OBVIOUS
    <2>2. j - i \in S
        BY <1>4, <2>1
    <2>. QED  BY <2>1, <2>2
<1>. QED  BY <1>5

\* Every sequence is found in what all of them yield, behind those before it.
LEMMA Places ==
    ASSUME NEW seqs \in Seq(Seq(Byte)), NEW n \in Nat, n = Len(seqs), NEW i \in 1..n
    PROVE  /\ Len(Upto(seqs, i - 1)) \in Nat
           /\ Len(Upto(seqs, i)) = Len(Upto(seqs, i - 1)) + Len(seqs[i])
           /\ Len(Upto(seqs, i)) <= Len(FlattenSeq(seqs))
           /\ \A k \in 1..Len(seqs[i]) :
                 FlattenSeq(seqs)[Len(Upto(seqs, i - 1)) + k] = seqs[i][k]
<1>1. /\ i - 1 \in 0..n /\ i \in 0..n /\ n \in i..n
      /\ Upto(seqs, i - 1) \in Seq(Byte) /\ Upto(seqs, i) \in Seq(Byte)
      /\ seqs[i] \in Seq(Byte)
    <2>1. i - 1 \in 0..n /\ i \in 0..n /\ n \in i..n /\ seqs[i] \in Seq(Byte)
        OBVIOUS
    <2>. QED  BY <2>1, UptoSteps, Zenon
<1>2. Upto(seqs, i) = Upto(seqs, i - 1) \o seqs[i] /\ Upto(seqs, n) = FlattenSeq(seqs)
    BY UptoSteps
<1>. DEFINE a == Upto(seqs, i - 1)
            b == seqs[i]
            all == FlattenSeq(seqs)
<1>3. /\ a \in Seq(Byte) /\ b \in Seq(Byte)
      /\ Len(a \o b) <= Len(all)
      /\ \A k \in 1..Len(a \o b) : all[k] = (a \o b)[k]
    <2>1. /\ Len(Upto(seqs, i)) <= Len(Upto(seqs, n))
          /\ \A k \in 1..Len(Upto(seqs, i)) : Upto(seqs, n)[k] = Upto(seqs, i)[k]
        BY <1>1, UptoGrows, Zenon
    <2>. QED  BY <1>1, <1>2, <2>1, Zenon
<1>. HIDE DEF a, b, all
<1>4. Len(a) \in Nat /\ Len(b) \in Nat /\ Len(a \o b) = Len(a) + Len(b)
    BY <1>3
<1>5. ASSUME NEW k \in 1..Len(b) PROVE all[Len(a) + k] = b[k]
    <2>1. Len(a) + k \in 1..Len(a \o b)
        BY <1>4
    <2>2. (a \o b)[Len(a) + k] = b[k]
        BY <1>3
    <2>. QED  BY <1>3, <2>1, <2>2
<1>. QED  BY <1>2, <1>3, <1>4, <1>5 DEF a, b, all

\* Words of one width.
LEMMA WordPlaces ==
    ASSUME NEW seqs \in Seq(Seq(Byte)), NEW n \in Nat, n = Len(seqs),
           NEW width \in Nat, \A i \in 1..n : Len(seqs[i]) = width
    PROVE  \A i \in 0..n : Len(Upto(seqs, i)) = width * i
<1>. DEFINE S == {i \in Nat : i \in 0..n => Len(Upto(seqs, i)) = width * i}
<1>1. 0 \in S
    <2>1. Upto(seqs, 0) = <<>>
        BY UptoSteps, Zenon
    <2>2. Len(<<>>) = 0 /\ width * 0 = 0
        OBVIOUS
    <2>. QED  BY <2>1, <2>2
<1>2. ASSUME NEW i \in Nat, i \in S PROVE i + 1 \in S
    <2>1. SUFFICES ASSUME i + 1 \in 0..n PROVE Len(Upto(seqs, i + 1)) = width * (i + 1)
        OBVIOUS
    <2>2. i + 1 \in 1..n /\ (i + 1) - 1 = i /\ i \in 0..n
        BY <2>1
    <2>3. Len(Upto(seqs, i + 1)) = Len(Upto(seqs, i)) + width
        BY <2>2, Places
    <2>4. width * (i + 1) = width * i + width
        OBVIOUS
    <2>. QED  BY <1>2, <2>2, <2>3, <2>4
<1>3. \A i \in Nat : i \in S
    <2>. HIDE DEF S
    <2>. QED  BY <1>1, <1>2, Counting
<1>. QED  BY <1>3

------------------------------------------------------------------------------
(* Numbers. *)

LEMMA WordTyped ==
    ASSUME NEW n \in Nat
    PROVE  /\ LE64(n) \in Seq(Byte) /\ Len(LE64(n)) = 8
           /\ BE32(n) \in Seq(Byte) /\ Len(BE32(n)) = 4
<1>. DEFINE a == n % 256
            b == (n \div 256) % 256
            c == (n \div 65536) % 256
            d == (n \div 16777216) % 256
<1>1. a \in Byte /\ b \in Byte /\ c \in Byte /\ d \in Byte /\ 0 \in Byte
    BY DEF Byte
<1>2. LE64(n) = <<a, b, c, d, 0, 0, 0, 0>> /\ BE32(n) = <<d, c, b, a>>
    BY DEF LE64, BE32
<1>. HIDE DEF a, b, c, d
<1>. QED  BY <1>1, <1>2

\* A number below Huge is read as it was written.
LEMMA Digits ==
    ASSUME NEW n \in Nat, n < Huge
    PROVE  /\ (n \div 16777216) % 256 < 64
           /\ (n % 256) + 256 * ((n \div 256) % 256) + 65536 * ((n \div 65536) % 256)
                + 16777216 * ((n \div 16777216) % 256) = n
BY SMT DEF Huge

LEMMA LE64Read ==
    ASSUME NEW f, NEW k, NEW n \in Nat, n < Huge,
           \A j \in 1..8 : f[k + j] = LE64(n)[j]
    PROVE  ReadLE64(f, k) = n
<1>. DEFINE a == n % 256
            b == (n \div 256) % 256
            c == (n \div 65536) % 256
            d == (n \div 16777216) % 256
<1>1. LE64(n) = <<a, b, c, d, 0, 0, 0, 0>>
    BY DEF LE64
<1>2. d < 64 /\ d \in Nat /\ a + 256 * b + 65536 * c + 16777216 * d = n
    BY Digits
<1>. HIDE DEF a, b, c, d
<1>3. /\ f[k + 1] = a /\ f[k + 2] = b /\ f[k + 3] = c /\ f[k + 4] = d
      /\ f[k + 5] = 0 /\ f[k + 6] = 0 /\ f[k + 7] = 0 /\ f[k + 8] = 0
    BY <1>1
<1>4. ~(f[k + 4] >= 64)
    BY <1>2, <1>3
<1>5. \A i \in 5..8 : f[k + i] = 0
    BY <1>3
<1>. QED  BY <1>2, <1>3, <1>4, <1>5 DEF ReadLE64

\* The word x is at offset k of f.
WordAt(f, k, x) == \A j \in 1..8 : f[k + j] = x[j]

LEMMA LE64ReadAt ==
    ASSUME NEW f, NEW k, NEW n \in Nat, n < Huge, WordAt(f, k, LE64(n))
    PROVE  ReadLE64(f, k) = n
BY LE64Read, Zenon DEF WordAt

LEMMA BE32Read ==
    ASSUME NEW f, NEW k, NEW n \in Nat, n < Huge,
           \A j \in 1..4 : f[k + j] = BE32(n)[j]
    PROVE  ReadBE32(f, k) = n
<1>. DEFINE a == n % 256
            b == (n \div 256) % 256
            c == (n \div 65536) % 256
            d == (n \div 16777216) % 256
<1>1. BE32(n) = <<d, c, b, a>>
    BY DEF BE32
<1>2. d < 64 /\ d \in Nat /\ a + 256 * b + 65536 * c + 16777216 * d = n
      /\ a \in Nat /\ b \in Nat /\ c \in Nat
    BY Digits
<1>. HIDE DEF a, b, c, d
<1>3. f[k + 1] = d /\ f[k + 2] = c /\ f[k + 3] = b /\ f[k + 4] = a
    BY <1>1
<1>4. ~(f[k + 1] >= 64)
    BY <1>2, <1>3
<1>. QED  BY <1>2, <1>3, <1>4 DEF ReadBE32

LEMMA ByteNumbers == \A x \in Byte : x \in Nat /\ x < 256
BY DEF Byte

LEMMA NumberTyped ==
    ASSUME NEW a \in Nat, NEW b \in Nat, NEW c \in Nat, NEW d \in Nat
    PROVE  /\ a + 256 * b + 65536 * c + 16777216 * d \in Nat
           /\ 16777216 * a + 65536 * b + 256 * c + d \in Nat
BY SMT

LEMMA ReadTyped ==
    ASSUME NEW f \in Seq(Byte), NEW k \in Nat
    PROVE  /\ k + 8 <= Len(f) => ReadLE64(f, k) \in Nat
           /\ k + 4 <= Len(f) => ReadBE32(f, k) \in Nat
<1>. DEFINE a == f[k + 1]
            b == f[k + 2]
            c == f[k + 3]
            d == f[k + 4]
<1>1. ASSUME k + 4 <= Len(f)
      PROVE  a \in Nat /\ b \in Nat /\ c \in Nat /\ d \in Nat
    <2>1. /\ k + 1 \in 1..Len(f) /\ k + 2 \in 1..Len(f)
          /\ k + 3 \in 1..Len(f) /\ k + 4 \in 1..Len(f)
        BY <1>1, SMT
    <2>2. a \in Byte /\ b \in Byte /\ c \in Byte /\ d \in Byte
        BY <2>1
    <2>. QED  BY <2>2, ByteNumbers
<1>2. k + 8 <= Len(f) => k + 4 <= Len(f)
    BY SMT
<1>3. Huge \in Nat
    BY SMT DEF Huge
<1>4. ReadLE64(f, k) = Huge \/ ReadLE64(f, k) = a + 256 * b + 65536 * c + 16777216 * d
    BY SMT DEF ReadLE64
<1>5. ReadBE32(f, k) = Huge \/ ReadBE32(f, k) = 16777216 * a + 65536 * b + 256 * c + d
    BY SMT DEF ReadBE32
<1>. HIDE DEF a, b, c, d
<1>6. ASSUME k + 4 <= Len(f)
      PROVE  /\ a + 256 * b + 65536 * c + 16777216 * d \in Nat
             /\ 16777216 * a + 65536 * b + 256 * c + d \in Nat
    <2>1. a \in Nat /\ b \in Nat /\ c \in Nat /\ d \in Nat
        BY <1>1, <1>6
    <2>. QED  BY <2>1, NumberTyped
<1>7. ASSUME k + 4 <= Len(f) PROVE ReadLE64(f, k) \in Nat
    BY <1>3, <1>4, <1>6, <1>7
<1>8. ASSUME k + 4 <= Len(f) PROVE ReadBE32(f, k) \in Nat
    BY <1>3, <1>5, <1>6, <1>8
<1>. QED  BY <1>2, <1>7, <1>8
------------------------------------------------------------------------------
(* The parts of a v1 frame. *)

LEMMA SubSeqTyped ==
    ASSUME NEW f \in Seq(Byte), NEW a \in Nat, NEW b \in Nat, a <= b, b <= Len(f)
    PROVE  /\ SubSeq(f, a + 1, b) \in Seq(Byte)
           /\ Len(SubSeq(f, a + 1, b)) = b - a
           /\ \A i \in 1..(b - a) : SubSeq(f, a + 1, b)[i] = f[a + i]
<1>1. \A i \in (a + 1)..b : f[i] \in Byte
    OBVIOUS
<1>. QED  BY <1>1, SubSeqProperties

LEMMA SubSeqJoins ==
    ASSUME NEW f \in Seq(Byte), NEW a \in Nat, NEW b \in Nat, NEW c \in Nat,
           a <= b, b <= c, c <= Len(f)
    PROVE  SubSeq(f, a + 1, b) \o SubSeq(f, b + 1, c) = SubSeq(f, a + 1, c)
<1>. DEFINE x == SubSeq(f, a + 1, b)
            y == SubSeq(f, b + 1, c)
            z == SubSeq(f, a + 1, c)
<1>1. /\ x \in Seq(Byte) /\ Len(x) = b - a /\ \A i \in 1..(b - a) : x[i] = f[a + i]
      /\ y \in Seq(Byte) /\ Len(y) = c - b /\ \A i \in 1..(c - b) : y[i] = f[b + i]
    BY SubSeqTyped
<1>2. z \in Seq(Byte) /\ Len(z) = c - a /\ \A i \in 1..(c - a) : z[i] = f[a + i]
    <2>1. a <= c
        OBVIOUS
    <2>. QED  BY <2>1, SubSeqTyped
<1>. HIDE DEF x, y, z
<1>3. (x \o y) \in Seq(Byte) /\ Len(x \o y) = c - a
    <2>1. x \in Seq(Byte) /\ y \in Seq(Byte) /\ Len(x) = b - a /\ Len(y) = c - b
        BY <1>1, Zenon
    <2>2. (x \o y) \in Seq(Byte) /\ Len(x \o y) = Len(x) + Len(y)
        BY <2>1
    <2>3. (b - a) + (c - b) = c - a
        OBVIOUS
    <2>. QED  BY <2>1, <2>2, <2>3, Zenon
<1>4. ASSUME NEW i \in 1..(c - a) PROVE (x \o y)[i] = z[i]
    <2>1. CASE i \in 1..(b - a)
        <3>1. (x \o y)[i] = x[i]
            BY <1>1, <2>1
        <3>. QED  BY <1>1, <1>2, <2>1, <3>1
    <2>2. CASE i \notin 1..(b - a)
        <3>1. PICK j \in 1..(c - b) : i = (b - a) + j
            <4>1. i - (b - a) \in 1..(c - b) /\ i = (b - a) + (i - (b - a))
                BY <2>2
            <4>. QED  BY <4>1
        <3>2. (x \o y)[i] = y[j]
            BY <1>1, <3>1
        <3>3. y[j] = f[b + j] /\ z[i] = f[a + i] /\ a + i = b + j
            BY <1>1, <1>2, <3>1
        <3>. QED  BY <3>2, <3>3
    <2>. QED  BY <2>1, <2>2
<1>5. x \o y = z
    BY <1>2, <1>3, <1>4, SeqEqual
<1>. QED  BY <1>5 DEF x, y, z

\* What V1Table says of the table of offsets.
LEMMA V1Offsets ==
    ASSUME NEW f \in Seq(Byte), V1Table(f)
    PROVE  \E n \in 6..MaxCount :
              /\ n = ReadLE64(f, 0)
              /\ 8 * (n + 1) <= Len(f)
              /\ Offsets(f) \in Seq(Nat)
              /\ Len(Offsets(f)) = n
              /\ Offsets(f)[1] = 8 * (n + 1)
              /\ Offsets(f)[n] = Len(f)
              /\ \A i \in 1..(n - 1) : Offsets(f)[i] <= Offsets(f)[i + 1]
<1>1. PICK n \in 6..MaxCount : n = ReadLE64(f, 0) /\ 8 * (n + 1) <= Len(f)
    <2>1. ReadLE64(f, 0) \in 6..MaxCount /\ 8 * (ReadLE64(f, 0) + 1) <= Len(f)
        BY Zenon DEF V1Table
    <2>. QED  BY <2>1, Zenon
<1>2. Offsets(f) = [i \in 1..n |-> ReadLE64(f, 8 * i)]
    BY <1>1 DEF Offsets
<1>3. ASSUME NEW i \in 1..n PROVE ReadLE64(f, 8 * i) \in Nat
    <2>1. 8 * i \in Nat /\ 8 * i + 8 <= Len(f)
        BY <1>1
    <2>. QED  BY <2>1, ReadTyped
<1>4. Offsets(f) \in Seq(Nat) /\ Len(Offsets(f)) = n
    BY <1>2, <1>3
<1>5. Last(Offsets(f)) = Offsets(f)[n]
    BY <1>4 DEF Last
<1>6. /\ Offsets(f)[1] = 8 * (ReadLE64(f, 0) + 1)
      /\ Last(Offsets(f)) = Len(f)
      /\ \A i \in 1..(Len(Offsets(f)) - 1) : Offsets(f)[i] <= Offsets(f)[i + 1]
    BY Zenon DEF V1Table
<1>. QED  BY <1>1, <1>4, <1>5, <1>6, Zenon

\* The parts that a table in order describes are the rest of the frame.
LEMMA V1Body ==
    ASSUME NEW f \in Seq(Byte), V1Table(f)
    PROVE  \E n \in 6..MaxCount :
              /\ n = ReadLE64(f, 0)
              /\ V1Parts(f) \in Seq(Seq(Byte))
              /\ Len(V1Parts(f)) = n - 1
              /\ FlattenSeq(V1Parts(f)) = SubSeq(f, 8 * (n + 1) + 1, Len(f))
<1>. DEFINE o == Offsets(f)
            parts == V1Parts(f)
<1>1. PICK n \in 6..MaxCount :
              /\ n = ReadLE64(f, 0)
              /\ 8 * (n + 1) <= Len(f)
              /\ o \in Seq(Nat)
              /\ Len(o) = n
              /\ o[1] = 8 * (n + 1)
              /\ o[n] = Len(f)
              /\ \A i \in 1..(n - 1) : o[i] <= o[i + 1]
    BY V1Offsets, Zenon
<1>2. parts = [i \in 1..(n - 1) |-> Slice(f, o[i], o[i + 1])]
    BY <1>1, Zenon DEF V1Parts
<1>3. Len(f) \in Nat
    OBVIOUS
<1>. HIDE DEF o, parts
<1>4. \A i \in 1..n : o[i] \in Nat
    BY <1>1
<1>5. \A i \in 1..n : o[i] <= Len(f)
    <2>. DEFINE S == {d \in Nat : d \in 0..(n - 1) => o[n - d] <= Len(f)}
    <2>1. 0 \in S
        BY <1>1, <1>3
    <2>2. ASSUME NEW d \in Nat, d \in S PROVE d + 1 \in S
        <3>1. SUFFICES ASSUME d + 1 \in 0..(n - 1) PROVE o[n - (d + 1)] <= Len(f)
            OBVIOUS
        <3>2. PICK i \in 1..(n - 1) : i = n - (d + 1) /\ i + 1 = n - d /\ i + 1 \in 1..n /\ i \in 1..n
            BY <3>1
        <3>3. o[i + 1] <= Len(f)
            BY <2>2, <3>1, <3>2
        <3>4. o[i] <= o[i + 1] /\ o[i] \in Nat /\ o[i + 1] \in Nat
            BY <1>1, <1>4, <3>2
        <3>5. o[i] <= Len(f)
            BY <1>3, <3>3, <3>4
        <3>. QED  BY <3>2, <3>5
    <2>3. \A d \in Nat : d \in S
        <3>. HIDE DEF S
        <3>. QED  BY <2>1, <2>2, Counting
    <2>4. ASSUME NEW i \in 1..n PROVE o[i] <= Len(f)
        <3>1. n - i \in Nat /\ n - i \in 0..(n - 1) /\ n - (n - i) = i
            OBVIOUS
        <3>2. n - i \in S
            BY <2>3, <3>1
        <3>. QED  BY <3>1, <3>2
    <2>. QED  BY <2>4
<1>6. ASSUME NEW i \in 1..(n - 1)
      PROVE  /\ parts[i] = SubSeq(f, o[i] + 1, o[i + 1])
             /\ parts[i] \in Seq(Byte)
             /\ o[i] \in Nat /\ o[i + 1] \in Nat
             /\ o[i] <= o[i + 1] /\ o[i + 1] <= Len(f)
    <2>1. i \in 1..n /\ i + 1 \in 1..n
        OBVIOUS
    <2>2. /\ o[i] \in Nat /\ o[i + 1] \in Nat
          /\ o[i] <= o[i + 1] /\ o[i + 1] <= Len(f)
        BY <1>1, <1>4, <1>5, <2>1, Zenon
    <2>3. (IF o[i + 1] < Len(f) THEN o[i + 1] ELSE Len(f)) = o[i + 1]
        BY <1>3, <2>2
    <2>4. parts[i] = SubSeq(f, o[i] + 1, o[i + 1])
        BY <1>2, <2>3, Zenon DEF Slice
    <2>. QED  BY <2>2, <2>4, SubSeqTyped
<1>7. parts \in Seq(Seq(Byte)) /\ Len(parts) = n - 1
    <2>1. n - 1 \in Nat
        OBVIOUS
    <2>2. \A i \in 1..(n - 1) : Slice(f, o[i], o[i + 1]) \in Seq(Byte)
        BY <1>2, <1>6, Zenon
    <2>. QED  BY <1>2, <2>1, <2>2
<1>. DEFINE Read(i) == /\ o[1] <= o[i + 1]
                       /\ Upto(parts, i) = SubSeq(f, o[1] + 1, o[i + 1])
            S == {i \in Nat : i \in 0..(n - 1) => Read(i)}
<1>8. 0 \in S
    <2>1. o[1] \in Nat /\ 1 \in 1..n
        BY <1>4
    <2>2. SubSeq(f, o[1] + 1, o[1]) = <<>>
        <3>1. o[1] < o[1] + 1
            BY <2>1
        <3>. QED  BY <2>1, <3>1, SubSeqEmpty
    <2>3. Upto(parts, 0) = <<>>
        <3>1. n - 1 \in Nat
            OBVIOUS
        <3>. QED  BY <1>7, <3>1, UptoSteps, Zenon
    <2>4. o[1] <= o[0 + 1] /\ o[0 + 1] = o[1]
        BY <2>1
    <2>5. Read(0)
        BY <2>2, <2>3, <2>4, Zenon
    <2>. HIDE DEF Read
    <2>. QED  BY <2>5
<1>9. ASSUME NEW i \in Nat, i \in S PROVE i + 1 \in S
    <2>1. SUFFICES ASSUME i + 1 \in 0..(n - 1) PROVE Read(i + 1)
        OBVIOUS
    <2>2. PICK j \in 1..(n - 1) : j = i + 1 /\ j - 1 = i /\ i \in 0..(n - 1)
        BY <2>1
    <2>3. o[1] <= o[j] /\ Upto(parts, j - 1) = SubSeq(f, o[1] + 1, o[j])
        BY <1>9, <2>2
    <2>4. Upto(parts, j) = Upto(parts, j - 1) \o parts[j]
        <3>1. n - 1 \in Nat
            OBVIOUS
        <3>. QED  BY <1>7, <3>1, UptoSteps, Zenon
    <2>5. o[1] \in Nat /\ 1 \in 1..n
        BY <1>4
    <2>6. SubSeq(f, o[1] + 1, o[j]) \o SubSeq(f, o[j] + 1, o[j + 1])
             = SubSeq(f, o[1] + 1, o[j + 1])
        <3>1. /\ o[j] \in Nat /\ o[j + 1] \in Nat
              /\ o[j] <= o[j + 1] /\ o[j + 1] <= Len(f)
            BY <1>6, Zenon
        <3>. QED  BY <2>3, <2>5, <3>1, SubSeqJoins, Zenon
    <2>7. o[1] <= o[j + 1]
        <3>1. o[j] \in Nat /\ o[j + 1] \in Nat /\ o[j] <= o[j + 1]
            BY <1>6, Zenon
        <3>. QED  BY <2>3, <2>5, <3>1
    <2>. QED  BY <1>6, <2>2, <2>3, <2>4, <2>6, <2>7, Zenon
<1>10. \A i \in Nat : i \in S
    <2>. HIDE DEF S
    <2>. QED  BY <1>8, <1>9, Counting
<1>11. Read(n - 1) /\ (n - 1) + 1 = n
    <2>1. n - 1 \in Nat /\ n - 1 \in 0..(n - 1) /\ (n - 1) + 1 = n
        OBVIOUS
    <2>2. n - 1 \in S
        BY <1>10, <2>1, Zenon
    <2>. HIDE DEF Read
    <2>. QED  BY <2>1, <2>2
<1>12. Upto(parts, n - 1) = FlattenSeq(parts)
    <2>1. n - 1 \in Nat
        OBVIOUS
    <2>. QED  BY <1>7, <2>1, UptoSteps, Zenon
<1>13. FlattenSeq(parts) = SubSeq(f, 8 * (n + 1) + 1, Len(f))
    BY <1>1, <1>11, <1>12, Zenon
<1>. QED  BY <1>1, <1>7, <1>13, Zenon DEF parts

\* Whatever is accepted as a v1 frame is read completely.
LEMMA AcceptedIsRead ==
    ASSUME NEW f \in Seq(Byte), DecodeBinary(f).protocol = "v1"
    PROVE  FlattenSeq(DecodeBinary(f).parts)
              = SubSeq(f, 8 * (Len(DecodeBinary(f).parts) + 2) + 1, Len(f))
<1>1. IsV1(f)
    <2>1. SUFFICES ASSUME ~IsV1(f) PROVE FALSE
        OBVIOUS
    <2>2. DecodeBinary(f).protocol \in {"legacy", "error"}
        BY <2>1 DEF DecodeBinary, Error
    <2>. QED  BY <2>2
<1>2. DecodeBinary(f).parts = V1Parts(f)
    BY <1>1 DEF DecodeBinary
<1>3. V1Table(f)
    BY <1>1, Zenon DEF IsV1
<1>4. PICK n \in 6..MaxCount :
              /\ n = ReadLE64(f, 0)
              /\ V1Parts(f) \in Seq(Seq(Byte))
              /\ Len(V1Parts(f)) = n - 1
              /\ FlattenSeq(V1Parts(f)) = SubSeq(f, 8 * (n + 1) + 1, Len(f))
    BY <1>3, V1Body, Zenon
<1>5. (n - 1) + 2 = n + 1
    OBVIOUS
<1>. QED  BY <1>2, <1>4, <1>5, Zenon

------------------------------------------------------------------------------
(* Messages and their frames. *)

LEMMA Joined ==
    ASSUME NEW s \in Seq(Seq(Byte)), NEW t \in Seq(Seq(Byte))
    PROVE  /\ (s \o t) \in Seq(Seq(Byte))
           /\ Len(s \o t) = Len(s) + Len(t)
           /\ \A i \in 1..Len(s) : (s \o t)[i] = s[i]
           /\ \A i \in 1..Len(t) : (s \o t)[Len(s) + i] = t[i]
<1>. DEFINE S == Seq(Byte)
<1>1. s \in Seq(S) /\ t \in Seq(S)
    OBVIOUS
<1>. HIDE DEF S
<1>2. /\ (s \o t) \in Seq(S)
      /\ Len(s \o t) = Len(s) + Len(t)
      /\ \A i \in 1..Len(s) : (s \o t)[i] = s[i]
      /\ \A i \in 1..Len(t) : (s \o t)[Len(s) + i] = t[i]
    BY <1>1
<1>. QED  BY <1>2 DEF S

LEMMA MessageForms ==
    ASSUME NEW m \in BinaryMessages
    PROVE  \E b \in BufferLists :
              \/ \E h \in V1Heads : m = [protocol |-> "v1", parts |-> h \o b]
              \/ \E h \in LegacyHeads : m = [protocol |-> "legacy", parts |-> h \o b]
BY Zenon DEF BinaryMessages

\* A message goes in a binary frame, or in a text frame.
LEMMA MessageFrames ==
    ASSUME NEW m \in Messages
    PROVE  \/ m \in BinaryMessages /\ m.protocol # "text"
           \/ \E o \in Objects : m = [protocol |-> "text", parts |-> <<o>>]
<1>1. ASSUME NEW h, m = [protocol |-> "v1", parts |-> h]
      PROVE  m.protocol # "text"
    BY <1>1
<1>2. ASSUME NEW h, m = [protocol |-> "legacy", parts |-> h]
      PROVE  m.protocol # "text"
    BY <1>2
<1>3. CASE m \in BinaryMessages
    BY <1>1, <1>2, <1>3, MessageForms, Zenon
<1>4. CASE m \in TextMessages
    BY <1>4 DEF TextMessages
<1>. QED  BY <1>3, <1>4, Zenon DEF Messages

LEMMA V1IsBinary ==
    ASSUME NEW m \in Messages, m.protocol = "v1"
    PROVE  m \in BinaryMessages
<1>1. ASSUME NEW o, m = [protocol |-> "text", parts |-> <<o>>]
      PROVE  FALSE
    BY <1>1
<1>. QED  BY <1>1, MessageFrames, Zenon

LEMMA TextMessage ==
    ASSUME NEW o \in Objects, NEW m, m = [protocol |-> "text", parts |-> <<o>>]
    PROVE  m.protocol = "text" /\ Encode(m) = o /\ m.parts = <<o>>
BY DEF Encode

LEMMA BufferListsTyped ==
    ASSUME NEW b \in BufferLists
    PROVE  b \in Seq(Seq(Byte)) /\ Len(b) \in 0..MaxBuffers
<1>1. PICK k \in 0..MaxBuffers : b \in [1..k -> Buffers]
    BY DEF BufferLists
<1>2. k \in Nat /\ Buffers \subseteq Seq(Byte)
    BY PartsAssumption
<1>. QED  BY <1>1, <1>2

LEMMA V1Message ==
    ASSUME NEW m \in BinaryMessages, m.protocol = "v1"
    PROVE  /\ m = [protocol |-> "v1", parts |-> m.parts]
           /\ m.parts \in Seq(Seq(Byte))
           /\ Len(m.parts) \in 5..(5 + MaxBuffers)
           /\ m.parts[1] = <<115>>
           /\ \A i \in 2..5 : m.parts[i] \in Objects
<1>1. PICK h \in V1Heads, b \in BufferLists : m = [protocol |-> "v1", parts |-> h \o b]
    <2>1. ASSUME NEW h, NEW b, m = [protocol |-> "legacy", parts |-> h \o b]
          PROVE  FALSE
        BY <2>1
    <2>2. PICK b \in BufferLists :
              \/ \E h \in V1Heads : m = [protocol |-> "v1", parts |-> h \o b]
              \/ \E h \in LegacyHeads : m = [protocol |-> "legacy", parts |-> h \o b]
        BY MessageForms, Zenon
    <2>. QED  BY <2>1, <2>2, Zenon
<1>2. PICK o \in [1..4 -> Objects] : h = <<<<115>>, o[1], o[2], o[3], o[4]>>
    BY DEF V1Heads
<1>3. o[1] \in Objects /\ o[2] \in Objects /\ o[3] \in Objects /\ o[4] \in Objects
    OBVIOUS
<1>4. /\ h \in Seq(Seq(Byte)) /\ Len(h) = 5
      /\ h[1] = <<115>> /\ \A i \in 2..5 : h[i] \in Objects
    <2>1. <<115>> \in Seq(Byte)
        BY DEF Byte
    <2>2. /\ o[1] \in Seq(Byte) /\ o[2] \in Seq(Byte)
          /\ o[3] \in Seq(Byte) /\ o[4] \in Seq(Byte)
        BY <1>3, PartsAssumption, Zenon
    <2>. QED  BY <1>2, <1>3, <2>1, <2>2
<1>5. b \in Seq(Seq(Byte)) /\ Len(b) \in 0..MaxBuffers
    BY BufferListsTyped
<1>6. m.parts = h \o b /\ m = [protocol |-> "v1", parts |-> m.parts]
    BY <1>1
<1>7. h \in Seq(Seq(Byte)) /\ Len(h) = 5
    BY <1>4, Zenon
<1>8. /\ (h \o b) \in Seq(Seq(Byte)) /\ Len(h \o b) = Len(h) + Len(b)
      /\ \A i \in 1..Len(h) : (h \o b)[i] = h[i]
    BY <1>5, <1>7, Joined, Zenon
<1>9. Len(h \o b) = 5 + Len(b) /\ \A i \in 1..5 : (h \o b)[i] = h[i]
    BY <1>7, <1>8, Zenon
<1>10. 5 + Len(b) \in 5..(5 + MaxBuffers)
    BY <1>5, PartsAssumption
<1>11. 1 \in 1..5 /\ \A i \in 2..5 : i \in 1..5
    OBVIOUS
<1>. QED  BY <1>4, <1>6, <1>8, <1>9, <1>10, <1>11, Zenon

LEMMA LegacyMessage ==
    ASSUME NEW m \in BinaryMessages, m.protocol # "v1"
    PROVE  /\ m = [protocol |-> "legacy", parts |-> m.parts]
           /\ m.parts \in Seq(Seq(Byte))
           /\ Len(m.parts) \in 1..(1 + MaxBuffers)
           /\ m.parts[1] \in Objects
<1>1. PICK h \in LegacyHeads, b \in BufferLists :
          m = [protocol |-> "legacy", parts |-> h \o b]
    <2>1. ASSUME NEW h, NEW b, m = [protocol |-> "v1", parts |-> h \o b]
          PROVE  FALSE
        BY <2>1
    <2>. QED  BY <2>1, MessageForms, Zenon
<1>2. PICK o \in Objects : h = <<o>>
    BY DEF LegacyHeads
<1>3. o \in Seq(Byte)
    BY PartsAssumption, Zenon
<1>4. h \in Seq(Seq(Byte)) /\ Len(h) = 1 /\ h[1] = o
    BY <1>2, <1>3
<1>5. b \in Seq(Seq(Byte)) /\ Len(b) \in 0..MaxBuffers
    BY BufferListsTyped
<1>6. m.parts = h \o b /\ m = [protocol |-> "legacy", parts |-> m.parts]
    BY <1>1
<1>7. (h \o b) \in Seq(Seq(Byte)) /\ Len(h \o b) = 1 + Len(b) /\ (h \o b)[1] = o
    <2>1. 1 \in 1..1
        OBVIOUS
    <2>2. /\ (h \o b) \in Seq(Seq(Byte)) /\ Len(h \o b) = Len(h) + Len(b)
          /\ \A i \in 1..Len(h) : (h \o b)[i] = h[i]
        BY <1>4, <1>5, Joined, Zenon
    <2>. QED  BY <1>4, <2>1, <2>2, Zenon
<1>8. 1 + Len(b) \in 1..(1 + MaxBuffers)
    BY <1>5, PartsAssumption
<1>. QED  BY <1>6, <1>7, <1>8, Zenon

LEMMA JoinedBytes ==
    ASSUME NEW s \in Seq(Byte), NEW t \in Seq(Byte)
    PROVE  /\ (s \o t) \in Seq(Byte)
           /\ Len(s \o t) = Len(s) + Len(t)
           /\ \A i \in 1..Len(s) : (s \o t)[i] = s[i]
           /\ \A i \in 1..Len(t) : (s \o t)[Len(s) + i] = t[i]
OBVIOUS

LaidOut(w, n, head, table, body, f) ==
    /\ f \in Seq(Byte)
    /\ Len(f) = w * (n + 1) + Len(body)
    /\ \A j \in 1..w : f[j] = head[j]
    /\ \A i \in 1..n : \A j \in 1..w : f[w * i + j] = table[i][j]
    /\ \A k \in 1..Len(body) : f[w * (n + 1) + k] = body[k]

\* Where a count, a table of words and a body are in the frame they make up.
LEMMA FrameLayout ==
    ASSUME NEW w \in {4, 8},
           NEW head \in Seq(Byte), Len(head) = w,
           NEW table \in Seq(Seq(Byte)), NEW n \in Nat, n = Len(table),
           \A i \in 1..n : Len(table[i]) = w,
           NEW body \in Seq(Byte)
    PROVE  LaidOut(w, n, head, table, body, head \o FlattenSeq(table) \o body)
<1>. DEFINE words == FlattenSeq(table)
            front == head \o words
            f == front \o body
<1>1. words \in Seq(Byte)
    BY FlattenTyped
<1>2. w \in Nat
    OBVIOUS
<1>3. \A i \in 0..n : Len(Upto(table, i)) = w * i
    BY <1>2, WordPlaces, Zenon
<1>4. Len(words) = w * n
    <2>1. n \in 0..n
        OBVIOUS
    <2>2. Upto(table, n) = words
        BY UptoSteps, Zenon
    <2>. QED  BY <1>3, <2>1, <2>2, Zenon
<1>5. ASSUME NEW i \in 1..n, NEW j \in 1..w
      PROVE  words[w * (i - 1) + j] = table[i][j] /\ w * (i - 1) + j \in 1..(w * n)
    <2>1. i - 1 \in 0..n
        OBVIOUS
    <2>2. Len(Upto(table, i - 1)) = w * (i - 1) /\ Len(table[i]) = w
        BY <1>3, <2>1, Zenon
    <2>3. words[w * (i - 1) + j] = table[i][j]
        <3>1. \A k \in 1..Len(table[i]) :
                 words[Len(Upto(table, i - 1)) + k] = table[i][k]
            BY Places, Zenon
        <3>. QED  BY <2>2, <3>1, Zenon
    <2>4. w * (i - 1) + j \in 1..(w * n)
        <3>1. CASE w = 4
            BY <3>1
        <3>2. CASE w = 8
            BY <3>2
        <3>. QED  BY <3>1, <3>2
    <2>. QED  BY <2>3, <2>4
<1>. HIDE DEF words
<1>6. /\ (head \o words) \in Seq(Byte) /\ Len(head \o words) = w + w * n
      /\ \A j \in 1..w : (head \o words)[j] = head[j]
      /\ \A j \in 1..(w * n) : (head \o words)[w + j] = words[j]
    <2>1. w * n \in Nat
        BY <1>2
    <2>2. /\ (head \o words) \in Seq(Byte) /\ Len(head \o words) = Len(head) + Len(words)
          /\ \A j \in 1..Len(head) : (head \o words)[j] = head[j]
          /\ \A j \in 1..Len(words) : (head \o words)[Len(head) + j] = words[j]
        BY <1>1, JoinedBytes, Zenon
    <2>. QED  BY <1>4, <2>2, Zenon
<1>7. w + w * n = w * (n + 1) /\ w * n \in Nat /\ w * (n + 1) \in Nat
    <2>1. CASE w = 4
        BY <2>1
    <2>2. CASE w = 8
        BY <2>2
    <2>. QED  BY <2>1, <2>2
<1>8. /\ f \in Seq(Byte) /\ Len(f) = Len(front) + Len(body)
      /\ \A j \in 1..Len(front) : f[j] = front[j]
      /\ \A k \in 1..Len(body) : f[Len(front) + k] = body[k]
    <2>1. front \in Seq(Byte)
        BY <1>6, Zenon
    <2>. HIDE DEF front
    <2>. QED  BY <2>1, JoinedBytes, Zenon
<1>9. Len(front) = w * (n + 1)
    BY <1>6, <1>7, Zenon
<1>10. ASSUME NEW j \in 1..w PROVE f[j] = head[j]
    <2>1. j \in 1..(w + w * n)
        BY <1>2, <1>7
    <2>2. j \in 1..Len(front)
        BY <1>6, <2>1, Zenon
    <2>. QED  BY <1>6, <1>8, <2>2, Zenon
<1>11. ASSUME NEW i \in 1..n, NEW j \in 1..w PROVE f[w * i + j] = table[i][j]
    <2>. DEFINE l == w * (i - 1) + j
    <2>1. l \in 1..(w * n) /\ words[l] = table[i][j]
        BY <1>5, Zenon
    <2>2. w * i + j = w + l
        <3>1. CASE w = 4
            BY <3>1
        <3>2. CASE w = 8
            BY <3>2
        <3>. QED  BY <3>1, <3>2
    <2>. HIDE DEF l
    <2>3. w + l \in 1..(w + w * n)
        BY <1>2, <1>7, <2>1
    <2>4. w + l \in 1..Len(front)
        BY <1>6, <2>3, Zenon
    <2>5. f[w + l] = front[w + l]
        BY <1>8, <2>4, Zenon
    <2>6. front[w + l] = words[l]
        BY <1>6, <2>1, Zenon
    <2>. QED  BY <2>1, <2>2, <2>5, <2>6, Zenon
<1>12. f = head \o FlattenSeq(table) \o body
    BY Zenon DEF words
<1>. HIDE DEF f, front
<1>13. LaidOut(w, n, head, table, body, f)
    BY <1>8, <1>9, <1>10, <1>11, Zenon DEF LaidOut
<1>. QED  BY <1>12, <1>13, Zenon

\* The offset of a part is where the parts before it end.
LEMMA OffsetOfPart ==
    ASSUME NEW w \in {4, 8}, NEW parts \in Seq(Seq(Byte)),
           NEW n \in Nat, NEW i \in 1..(Len(parts) + 1)
    PROVE  /\ PartOffset(w, n, parts, i) = w * (n + 1) + Len(Upto(parts, i - 1))
           /\ PartOffset(w, n, parts, i) \in Nat
           /\ PartOffset(w, n, parts, i) <= w * (n + 1) + Len(FlattenSeq(parts))
<1>1. PartOffset(w, n, parts, i) = w * (n + 1) + Len(Upto(parts, i - 1))
    BY DEF PartOffset, FirstOffset, Upto
<1>2. PICK p \in Nat : p = Len(parts)
    OBVIOUS
<1>3. i - 1 \in 0..p /\ p \in (i - 1)..p /\ i - 1 \in Nat
    BY <1>2
<1>4. Upto(parts, i - 1) \in Seq(Byte) /\ Upto(parts, p) = FlattenSeq(parts)
    BY <1>2, <1>3, UptoSteps, Zenon
<1>5. FlattenSeq(parts) \in Seq(Byte)
    BY FlattenTyped
<1>6. Len(Upto(parts, i - 1)) <= Len(FlattenSeq(parts))
    BY <1>2, <1>3, <1>4, UptoGrows, Zenon
<1>7. w * (n + 1) \in Nat
    <2>1. CASE w = 4
        BY <2>1
    <2>2. CASE w = 8
        BY <2>2
    <2>. QED  BY <2>1, <2>2
<1>8. Len(Upto(parts, i - 1)) \in Nat /\ Len(FlattenSeq(parts)) \in Nat
    BY <1>4, <1>5
<1>9. w * (n + 1) + Len(Upto(parts, i - 1)) \in Nat
    BY <1>7, <1>8
<1>10. w * (n + 1) + Len(Upto(parts, i - 1)) <= w * (n + 1) + Len(FlattenSeq(parts))
    BY <1>6, <1>7, <1>8
<1>. QED  BY <1>1, <1>9, <1>10, Zenon

LEMMA V1Layout ==
    ASSUME NEW parts \in Seq(Seq(Byte)), NEW n \in Nat, n = Len(parts) + 1
    PROVE  LET f == EncodeV1(parts)
               body == FlattenSeq(parts)
           IN /\ f \in Seq(Byte)
              /\ Len(f) = 8 * (n + 1) + Len(body)
              /\ \A j \in 1..8 : f[j] = LE64(n)[j]
              /\ \A i \in 1..n : \A j \in 1..8 :
                    f[8 * i + j] = LE64(PartOffset(8, n, parts, i))[j]
              /\ \A k \in 1..Len(body) : f[8 * (n + 1) + k] = body[k]
<1>. DEFINE table == [i \in 1..n |-> LE64(PartOffset(8, n, parts, i))]
            f == EncodeV1(parts)
            body == FlattenSeq(parts)
<1>1. f = LE64(n) \o FlattenSeq(table) \o body
    BY Zenon DEF EncodeV1
<1>2. ASSUME NEW i \in 1..n
      PROVE  /\ LE64(PartOffset(8, n, parts, i)) \in Seq(Byte)
             /\ Len(LE64(PartOffset(8, n, parts, i))) = 8
    <2>1. 8 \in {4, 8} /\ i \in 1..(Len(parts) + 1)
        OBVIOUS
    <2>2. PartOffset(8, n, parts, i) \in Nat
        BY <2>1, OffsetOfPart, Zenon
    <2>. QED  BY <2>2, WordTyped, Zenon
<1>3. table \in Seq(Seq(Byte)) /\ Len(table) = n
    BY <1>2
<1>4. \A i \in 1..n : table[i] = LE64(PartOffset(8, n, parts, i)) /\ Len(table[i]) = 8
    BY <1>2, Zenon
<1>5. LE64(n) \in Seq(Byte) /\ Len(LE64(n)) = 8
    BY WordTyped, Zenon
<1>6. body \in Seq(Byte)
    BY FlattenTyped
<1>. HIDE DEF table, f, body
<1>7. 8 \in {4, 8}
    OBVIOUS
<1>8. LaidOut(8, n, LE64(n), table, body, f)
    <2>1. LaidOut(8, n, LE64(n), table, body, LE64(n) \o FlattenSeq(table) \o body)
        BY <1>3, <1>4, <1>5, <1>6, <1>7, FrameLayout, Zenon
    <2>. QED  BY <1>1, <2>1, Zenon
<1>9. ASSUME NEW i \in 1..n, NEW j \in 1..8
      PROVE  f[8 * i + j] = LE64(PartOffset(8, n, parts, i))[j]
    <2>1. f[8 * i + j] = table[i][j]
        BY <1>8, Zenon DEF LaidOut
    <2>2. table[i] = LE64(PartOffset(8, n, parts, i))
        BY <1>4, Zenon
    <2>. QED  BY <2>1, <2>2, Zenon
<1>10. /\ f \in Seq(Byte)
       /\ Len(f) = 8 * (n + 1) + Len(body)
       /\ \A j \in 1..8 : f[j] = LE64(n)[j]
       /\ \A k \in 1..Len(body) : f[8 * (n + 1) + k] = body[k]
    BY <1>8, Zenon DEF LaidOut
<1>. QED  BY <1>9, <1>10, Zenon DEF f, body

LEMMA LegacyLayout ==
    ASSUME NEW parts \in Seq(Seq(Byte)), NEW n \in Nat, n = Len(parts)
    PROVE  LET f == EncodeLegacy(parts)
               body == FlattenSeq(parts)
           IN /\ f \in Seq(Byte)
              /\ Len(f) = 4 * (n + 1) + Len(body)
              /\ \A j \in 1..4 : f[j] = BE32(n)[j]
              /\ \A i \in 1..n : \A j \in 1..4 :
                    f[4 * i + j] = BE32(PartOffset(4, n, parts, i))[j]
              /\ \A k \in 1..Len(body) : f[4 * (n + 1) + k] = body[k]
<1>. DEFINE table == [i \in 1..n |-> BE32(PartOffset(4, n, parts, i))]
            f == EncodeLegacy(parts)
            body == FlattenSeq(parts)
<1>1. f = BE32(n) \o FlattenSeq(table) \o body
    BY Zenon DEF EncodeLegacy
<1>2. ASSUME NEW i \in 1..n
      PROVE  /\ BE32(PartOffset(4, n, parts, i)) \in Seq(Byte)
             /\ Len(BE32(PartOffset(4, n, parts, i))) = 4
    <2>1. 4 \in {4, 8} /\ i \in 1..(Len(parts) + 1)
        OBVIOUS
    <2>2. PartOffset(4, n, parts, i) \in Nat
        BY <2>1, OffsetOfPart, Zenon
    <2>. QED  BY <2>2, WordTyped, Zenon
<1>3. table \in Seq(Seq(Byte)) /\ Len(table) = n
    BY <1>2
<1>4. \A i \in 1..n : table[i] = BE32(PartOffset(4, n, parts, i)) /\ Len(table[i]) = 4
    BY <1>2, Zenon
<1>5. BE32(n) \in Seq(Byte) /\ Len(BE32(n)) = 4
    BY WordTyped, Zenon
<1>6. body \in Seq(Byte)
    BY FlattenTyped
<1>. HIDE DEF table, f, body
<1>7. 4 \in {4, 8}
    OBVIOUS
<1>8. LaidOut(4, n, BE32(n), table, body, f)
    <2>1. LaidOut(4, n, BE32(n), table, body, BE32(n) \o FlattenSeq(table) \o body)
        BY <1>3, <1>4, <1>5, <1>6, <1>7, FrameLayout, Zenon
    <2>. QED  BY <1>1, <2>1, Zenon
<1>9. ASSUME NEW i \in 1..n, NEW j \in 1..4
      PROVE  f[4 * i + j] = BE32(PartOffset(4, n, parts, i))[j]
    <2>1. f[4 * i + j] = table[i][j]
        BY <1>8, Zenon DEF LaidOut
    <2>2. table[i] = BE32(PartOffset(4, n, parts, i))
        BY <1>4, Zenon
    <2>. QED  BY <2>1, <2>2, Zenon
<1>10. /\ f \in Seq(Byte)
       /\ Len(f) = 4 * (n + 1) + Len(body)
       /\ \A j \in 1..4 : f[j] = BE32(n)[j]
       /\ \A k \in 1..Len(body) : f[4 * (n + 1) + k] = body[k]
    BY <1>8, Zenon DEF LaidOut
<1>. QED  BY <1>9, <1>10, Zenon DEF f, body

LEMMA HugeNumber ==
    Huge \in Nat /\ Huge > MaxCount /\ Huge \notin 6..MaxCount /\ Huge \notin 1..MaxCount
BY SMT DEF Huge, MaxCount

LEMMA OffsetsAreSmall ==
    ASSUME NEW w \in {4, 8}, NEW parts \in Seq(Seq(Byte)), NEW n \in Nat,
           NEW l \in Nat, l = w * (n + 1) + Len(FlattenSeq(parts)), l < Huge
    PROVE  /\ n < Huge
           /\ \A i \in 1..(Len(parts) + 1) :
                 PartOffset(w, n, parts, i) \in Nat /\ PartOffset(w, n, parts, i) < Huge
<1>1. FlattenSeq(parts) \in Seq(Byte)
    BY FlattenTyped
<1>2. Len(FlattenSeq(parts)) \in Nat
    BY <1>1
<1>3. n < Huge
    <2>1. CASE w = 4
        BY <1>2, <2>1, HugeNumber
    <2>2. CASE w = 8
        BY <1>2, <2>2, HugeNumber
    <2>. QED  BY <2>1, <2>2
<1>4. ASSUME NEW i \in 1..(Len(parts) + 1)
      PROVE  PartOffset(w, n, parts, i) \in Nat /\ PartOffset(w, n, parts, i) < Huge
    <2>1. PartOffset(w, n, parts, i) \in Nat /\ PartOffset(w, n, parts, i) <= l
        BY OffsetOfPart, Zenon
    <2>. QED  BY <2>1, HugeNumber
<1>. QED  BY <1>3, <1>4

\* A count and offsets that were not touched are read as they were written.
LEMMA V1Reads ==
    ASSUME NEW parts \in Seq(Seq(Byte)), NEW n \in Nat, n = Len(parts) + 1,
           Len(EncodeV1(parts)) < Huge, NEW g
    PROVE  /\ (\A j \in 1..8 : g[j] = EncodeV1(parts)[j]) => ReadLE64(g, 0) = n
           /\ \A i \in 1..n :
                 (\A j \in 1..8 : g[8 * i + j] = EncodeV1(parts)[8 * i + j])
                     => ReadLE64(g, 8 * i) = PartOffset(8, n, parts, i)
<1>. DEFINE f == EncodeV1(parts)
<1>1. /\ f \in Seq(Byte)
      /\ Len(f) = 8 * (n + 1) + Len(FlattenSeq(parts))
      /\ \A j \in 1..8 : f[j] = LE64(n)[j]
      /\ \A i \in 1..n : \A j \in 1..8 :
            f[8 * i + j] = LE64(PartOffset(8, n, parts, i))[j]
    BY V1Layout, Zenon
<1>. HIDE DEF f
<1>2. Len(f) \in Nat /\ 8 \in {4, 8} /\ n = Len(parts) + 1
    BY <1>1
<1>3. Len(f) < Huge
    BY DEF f
<1>4. /\ n < Huge
      /\ \A i \in 1..n :
            PartOffset(8, n, parts, i) \in Nat /\ PartOffset(8, n, parts, i) < Huge
    BY <1>1, <1>2, <1>3, OffsetsAreSmall, Zenon
<1>5. ASSUME \A j \in 1..8 : g[j] = f[j] PROVE ReadLE64(g, 0) = n
    <2>1. \A j \in 1..8 : g[j] = LE64(n)[j]
        BY <1>1, <1>5, Zenon
    <2>2. \A j \in 1..8 : 0 + j = j
        OBVIOUS
    <2>3. \A j \in 1..8 : g[0 + j] = LE64(n)[j]
        BY <2>1, <2>2, Zenon
    <2>4. n < Huge
        BY <1>4, Zenon
    <2>5. WordAt(g, 0, LE64(n))
        BY <2>3, Zenon DEF WordAt
    <2>. QED  BY <2>4, <2>5, LE64ReadAt, Zenon
<1>6. ASSUME NEW i \in 1..n, \A j \in 1..8 : g[8 * i + j] = f[8 * i + j]
      PROVE  ReadLE64(g, 8 * i) = PartOffset(8, n, parts, i)
    <2>1. \A j \in 1..8 : g[8 * i + j] = LE64(PartOffset(8, n, parts, i))[j]
        BY <1>1, <1>6, Zenon
    <2>2. PartOffset(8, n, parts, i) \in Nat /\ PartOffset(8, n, parts, i) < Huge
        BY <1>4, Zenon
    <2>3. WordAt(g, 8 * i, LE64(PartOffset(8, n, parts, i)))
        BY <2>1, Zenon DEF WordAt
    <2>. QED  BY <2>2, <2>3, LE64ReadAt, Zenon
<1>. QED  BY <1>5, <1>6, Zenon DEF f

LEMMA LegacyReads ==
    ASSUME NEW parts \in Seq(Seq(Byte)), NEW n \in Nat, n = Len(parts),
           Len(EncodeLegacy(parts)) < Huge
    PROVE  /\ ReadBE32(EncodeLegacy(parts), 0) = n
           /\ \A i \in 1..n : ReadBE32(EncodeLegacy(parts), 4 * i)
                                 = PartOffset(4, n, parts, i)
<1>. DEFINE f == EncodeLegacy(parts)
<1>1. /\ f \in Seq(Byte)
      /\ Len(f) = 4 * (n + 1) + Len(FlattenSeq(parts))
      /\ \A j \in 1..4 : f[j] = BE32(n)[j]
      /\ \A i \in 1..n : \A j \in 1..4 :
            f[4 * i + j] = BE32(PartOffset(4, n, parts, i))[j]
    BY LegacyLayout, Zenon
<1>. HIDE DEF f
<1>2. Len(f) \in Nat /\ 4 \in {4, 8} /\ \A i \in 1..n : i \in 1..(Len(parts) + 1)
    BY <1>1
<1>3. Len(f) < Huge
    BY DEF f
<1>4. /\ n < Huge
      /\ \A i \in 1..n :
            PartOffset(4, n, parts, i) \in Nat /\ PartOffset(4, n, parts, i) < Huge
    BY <1>1, <1>2, <1>3, OffsetsAreSmall, Zenon
<1>5. ReadBE32(f, 0) = n
    <2>1. \A j \in 1..4 : 0 + j = j
        OBVIOUS
    <2>2. \A j \in 1..4 : f[0 + j] = BE32(n)[j]
        BY <1>1, <2>1, Zenon
    <2>. QED  BY <1>4, <2>2, BE32Read, Zenon
<1>6. ASSUME NEW i \in 1..n PROVE ReadBE32(f, 4 * i) = PartOffset(4, n, parts, i)
    <2>1. \A j \in 1..4 : f[4 * i + j] = BE32(PartOffset(4, n, parts, i))[j]
        BY <1>1, Zenon
    <2>. QED  BY <1>4, <2>1, BE32Read, Zenon
<1>. QED  BY <1>5, <1>6, Zenon DEF f

\* Where a part is, is what it is.
LEMMA PartFound ==
    ASSUME NEW f \in Seq(Byte), NEW part \in Seq(Byte), NEW a \in Nat, NEW b \in Nat,
           b = a + Len(part), b <= Len(f),
           \A k \in 1..Len(part) : f[a + k] = part[k]
    PROVE  Slice(f, a, b) = part
<1>1. Len(f) \in Nat /\ Len(part) \in Nat
    OBVIOUS
<1>2. (IF b < Len(f) THEN b ELSE Len(f)) = b
    BY <1>1
<1>3. Slice(f, a, b) = SubSeq(f, a + 1, b)
    BY <1>2, Zenon DEF Slice
<1>. DEFINE s == SubSeq(f, a + 1, b)
<1>4. a <= b /\ b - a = Len(part)
    BY <1>1
<1>5. s \in Seq(Byte) /\ Len(s) = b - a /\ \A k \in 1..(b - a) : s[k] = f[a + k]
    BY <1>4, SubSeqTyped, Zenon
<1>. HIDE DEF s
<1>6. s \in Seq(Byte) /\ Len(s) = Len(part) /\ \A k \in 1..Len(s) : s[k] = part[k]
    BY <1>4, <1>5, Zenon
<1>7. s = part
    BY <1>6, SeqEqual
<1>. QED  BY <1>3, <1>7 DEF s

\* Where the parts are that two offsets in a row enclose.
LEMMA PartsInFrame ==
    ASSUME NEW w \in {4, 8}, NEW parts \in Seq(Seq(Byte)), NEW n \in Nat,
           NEW f \in Seq(Byte), Len(f) = w * (n + 1) + Len(FlattenSeq(parts)),
           \A k \in 1..Len(FlattenSeq(parts)) :
              f[w * (n + 1) + k] = FlattenSeq(parts)[k]
    PROVE  /\ PartOffset(w, n, parts, 1) = w * (n + 1)
           /\ PartOffset(w, n, parts, Len(parts) + 1) = Len(f)
           /\ \A i \in 1..Len(parts) :
                 /\ PartOffset(w, n, parts, i) <= PartOffset(w, n, parts, i + 1)
                 /\ Slice(f, PartOffset(w, n, parts, i), PartOffset(w, n, parts, i + 1))
                       = parts[i]
<1>. DEFINE body == FlattenSeq(parts)
            o(i) == PartOffset(w, n, parts, i)
            t == w * (n + 1)
            upto(i) == Len(Upto(parts, i))
<1>1. PICK p \in Nat : p = Len(parts)
    OBVIOUS
<1>2. body \in Seq(Byte) /\ Len(body) \in Nat /\ Len(f) \in Nat
    <2>1. body \in Seq(Byte)
        BY FlattenTyped
    <2>. QED  BY <2>1
<1>3. t \in Nat
    <2>1. CASE w = 4
        BY <2>1
    <2>2. CASE w = 8
        BY <2>2
    <2>. QED  BY <2>1, <2>2
<1>4. \A i \in 1..(p + 1) : o(i) = t + upto(i - 1) /\ o(i) \in Nat
    BY <1>1, OffsetOfPart, Zenon
<1>5. /\ Upto(parts, 0) = <<>> /\ Upto(parts, p) = body
      /\ \A i \in 0..p : Upto(parts, i) \in Seq(Byte)
    BY <1>1, UptoSteps, Zenon
<1>6. upto(0) = 0 /\ upto(p) = Len(body) /\ \A i \in 0..p : upto(i) \in Nat
    BY <1>5
<1>7. \A i \in 1..p :
         /\ upto(i) = upto(i - 1) + Len(parts[i])
         /\ upto(i) <= Len(body)
         /\ \A k \in 1..Len(parts[i]) : body[upto(i - 1) + k] = parts[i][k]
    BY <1>1, Places, Zenon
<1>8. Len(f) = t + Len(body) /\ \A k \in 1..Len(body) : f[t + k] = body[k]
    OBVIOUS
<1>. HIDE DEF body, o, t, upto
<1>9. o(1) = t /\ o(p + 1) = Len(f)
    <2>1. 1 \in 1..(p + 1) /\ p + 1 \in 1..(p + 1) /\ 1 - 1 = 0 /\ (p + 1) - 1 = p
        OBVIOUS
    <2>2. o(1) = t + upto(0) /\ o(p + 1) = t + upto(p)
        BY <1>4, <2>1, Zenon
    <2>. QED  BY <1>3, <1>6, <1>8, <2>2
<1>10. ASSUME NEW i \in 1..p
       PROVE  o(i) <= o(i + 1) /\ Slice(f, o(i), o(i + 1)) = parts[i]
    <2>. DEFINE part == parts[i]
    <2>1. /\ i \in 1..(p + 1) /\ i + 1 \in 1..(p + 1) /\ (i + 1) - 1 = i
          /\ i - 1 \in 0..p /\ i \in 0..p /\ part \in Seq(Byte)
        BY <1>1
    <2>2. /\ o(i) = t + upto(i - 1) /\ o(i + 1) = t + upto(i)
          /\ o(i) \in Nat /\ o(i + 1) \in Nat
        BY <1>4, <2>1, Zenon
    <2>3. /\ upto(i) = upto(i - 1) + Len(part) /\ upto(i) <= Len(body)
          /\ upto(i) \in Nat /\ upto(i - 1) \in Nat
        BY <1>6, <1>7, <2>1, Zenon
    <2>4. \A k \in 1..Len(part) : body[upto(i - 1) + k] = part[k]
        BY <1>7, Zenon
    <2>. HIDE DEF part
    <2>5. Len(part) \in Nat
        BY <2>1
    <2>6. o(i + 1) = o(i) + Len(part) /\ o(i + 1) <= Len(f) /\ o(i) <= o(i + 1)
        <3>. DEFINE a == upto(i - 1)
                    b == upto(i)
                    c == Len(part)
                    d == Len(body)
        <3>1. /\ a \in Nat /\ b \in Nat /\ c \in Nat /\ d \in Nat
              /\ b = a + c /\ b <= d
            BY <1>2, <2>3, <2>5, Zenon
        <3>2. o(i) = t + a /\ o(i + 1) = t + b /\ Len(f) = t + d
            BY <1>8, <2>2, Zenon
        <3>. HIDE DEF a, b, c, d
        <3>3. t + b = (t + a) + c /\ t + b <= t + d /\ t + a <= t + b
            BY <1>3, <3>1
        <3>4. o(i + 1) = o(i) + c /\ o(i + 1) <= Len(f) /\ o(i) <= o(i + 1)
            BY <3>2, <3>3, Zenon
        <3>. QED  BY <3>4, Zenon DEF c
    <2>7. ASSUME NEW k \in 1..Len(part) PROVE f[o(i) + k] = part[k]
        <3>1. upto(i - 1) + k \in 1..Len(body)
            <4>. DEFINE u == upto(i - 1)
            <4>1. u \in Nat /\ u + Len(part) <= Len(body)
                BY <2>3, Zenon
            <4>. HIDE DEF u
            <4>2. u + k \in 1..Len(body)
                BY <1>2, <2>5, <4>1
            <4>. QED  BY <4>2 DEF u
        <3>2. f[t + (upto(i - 1) + k)] = body[upto(i - 1) + k]
            BY <1>8, <3>1, Zenon
        <3>3. t + (upto(i - 1) + k) = o(i) + k
            BY <1>3, <2>2, <2>3
        <3>. QED  BY <2>4, <3>2, <3>3, Zenon
    <2>8. Slice(f, o(i), o(i + 1)) = part
        BY <2>1, <2>2, <2>6, <2>7, PartFound, Zenon
    <2>. QED  BY <2>6, <2>8 DEF part
<1>. QED  BY <1>1, <1>9, <1>10, Zenon DEF o, t

LEMMA FlattenLength ==
    ASSUME NEW seqs \in Seq(Seq(Byte))
    PROVE  Len(FlattenSeq(seqs)) \in Nat
<1>1. FlattenSeq(seqs) \in Seq(Byte)
    BY FlattenTyped
<1>. QED  BY <1>1

LEMMA V1Sizes ==
    ASSUME NEW n \in 6..MaxCount, NEW l \in Nat
    PROVE  /\ 8 * (n + 1) + l \in Nat
           /\ 8 * (n + 1) <= 8 * (n + 1) + l
           /\ 8 * (n + 1) + l >= 56
OBVIOUS

LEMMA LegacySizes ==
    ASSUME NEW n \in 1..MaxCount, NEW l \in Nat
    PROVE  /\ 4 * (n + 1) + l \in Nat
           /\ 4 * (n + 1) <= 4 * (n + 1) + l
           /\ 4 * (n + 1) + l >= 8
OBVIOUS

LEMMA Counts ==
    ASSUME NEW n \in 1..MaxCount
    PROVE  /\ n \in Nat /\ 4 \in {4, 8} /\ 4 * 1 = 4 /\ 1 \in 1..n
           /\ \A i \in 1..n :
                 /\ i <= n
                 /\ i + 1 <= n => i + 1 \in 1..n
                 /\ ~(i + 1 <= n) => i = n
OBVIOUS

LEMMA SeqIsFunction ==
    ASSUME NEW seq \in Seq(Seq(Byte))
    PROVE  seq = [i \in 1..Len(seq) |-> seq[i]]
OBVIOUS

\* A count and the first offset of a legacy frame take two bytes at most.
Short == {n \in Nat : n # 0 /\ n < 65536}

LEMMA TwoBytes ==
    ASSUME NEW n \in 1..MaxCount
    PROVE  n \in Short /\ 4 * (n + 1) \in Short
BY SMT DEF Short, MaxCount

LEMMA V1RoundTrip ==
    ASSUME NEW parts \in Seq(Seq(Byte)), NEW n \in 6..MaxCount, n = Len(parts) + 1,
           Len(EncodeV1(parts)) < Huge
    PROVE  V1Table(EncodeV1(parts)) /\ V1Parts(EncodeV1(parts)) = parts
<1>. DEFINE f == EncodeV1(parts)
            o(i) == PartOffset(8, n, parts, i)
<1>1. n \in Nat /\ 8 \in {4, 8} /\ Len(parts) \in Nat /\ Len(parts) = n - 1
    OBVIOUS
<1>2. /\ f \in Seq(Byte)
      /\ Len(f) = 8 * (n + 1) + Len(FlattenSeq(parts))
      /\ \A k \in 1..Len(FlattenSeq(parts)) : f[8 * (n + 1) + k] = FlattenSeq(parts)[k]
    BY <1>1, V1Layout, Zenon
<1>3. Len(f) \in Nat /\ 8 * (n + 1) <= Len(f) /\ Len(f) >= 56
    <2>. DEFINE l == Len(FlattenSeq(parts))
    <2>1. l \in Nat
        BY FlattenLength, Zenon
    <2>2. Len(f) = 8 * (n + 1) + l
        BY <1>2, Zenon
    <2>. HIDE DEF f, l
    <2>3. /\ 8 * (n + 1) + l \in Nat
          /\ 8 * (n + 1) <= 8 * (n + 1) + l
          /\ 8 * (n + 1) + l >= 56
        BY <2>1, V1Sizes, Zenon
    <2>. QED  BY <2>2, <2>3, Zenon
<1>4. ReadLE64(f, 0) = n /\ \A i \in 1..n : ReadLE64(f, 8 * i) = o(i)
    BY <1>1, V1Reads, Zenon
<1>5. /\ o(1) = 8 * (n + 1)
      /\ o(Len(parts) + 1) = Len(f)
      /\ \A i \in 1..Len(parts) : o(i) <= o(i + 1) /\ Slice(f, o(i), o(i + 1)) = parts[i]
    BY <1>1, <1>2, PartsInFrame, Zenon
<1>. HIDE DEF f
<1>6. Offsets(f) = [i \in 1..n |-> o(i)]
    BY <1>4, Zenon DEF Offsets
<1>7. \A i \in 1..n : o(i) \in Nat
    <2>1. \A i \in 1..n : i \in 1..(Len(parts) + 1)
        OBVIOUS
    <2>. QED  BY <1>1, <2>1, OffsetOfPart, Zenon
<1>. HIDE DEF o
<1>8. Offsets(f) \in Seq(Nat) /\ Len(Offsets(f)) = n
    BY <1>1, <1>6, <1>7
<1>9. \A i \in 1..n : Offsets(f)[i] = o(i)
    BY <1>6
<1>10. Last(Offsets(f)) = Len(f) /\ Offsets(f)[1] = 8 * (n + 1)
    <2>1. 1 \in 1..n /\ n \in 1..n
        OBVIOUS
    <2>2. Last(Offsets(f)) = o(n)
        BY <1>8, <1>9, <2>1, Zenon DEF Last
    <2>. QED  BY <1>5, <1>9, <2>1, <2>2, Zenon
<1>11. \A i \in 1..(n - 1) :
          /\ Offsets(f)[i] <= Offsets(f)[i + 1]
          /\ Slice(f, Offsets(f)[i], Offsets(f)[i + 1]) = parts[i]
    <2>1. \A i \in 1..(n - 1) : i \in 1..n /\ i + 1 \in 1..n /\ i \in 1..Len(parts)
        BY <1>1
    <2>. QED  BY <1>5, <1>9, <2>1, Zenon
<1>12. V1Table(f)
    BY <1>3, <1>4, <1>8, <1>10, <1>11, Zenon DEF V1Table
<1>13. V1Parts(f) = parts
    <2>1. V1Parts(f) = [i \in 1..(n - 1) |-> parts[i]]
        BY <1>8, <1>11, Zenon DEF V1Parts
    <2>2. parts = [i \in 1..(n - 1) |-> parts[i]]
        BY <1>1
    <2>. QED  BY <2>1, <2>2, Zenon
<1>. QED  BY <1>12, <1>13 DEF f

LEMMA LegacyRoundTrip ==
    ASSUME NEW parts \in Seq(Seq(Byte)), NEW n \in 1..MaxCount, n = Len(parts),
           Len(EncodeLegacy(parts)) < Huge
    PROVE  LegacyTable(EncodeLegacy(parts)) /\ LegacyParts(EncodeLegacy(parts)) = parts
<1>. DEFINE f == EncodeLegacy(parts)
            o(i) == PartOffset(4, n, parts, i)
<1>1. n \in Nat /\ 4 \in {4, 8}
    BY Counts, Zenon
<1>2. /\ f \in Seq(Byte)
      /\ Len(f) = 4 * (n + 1) + Len(FlattenSeq(parts))
      /\ \A k \in 1..Len(FlattenSeq(parts)) : f[4 * (n + 1) + k] = FlattenSeq(parts)[k]
    BY <1>1, LegacyLayout, Zenon
<1>3. Len(f) \in Nat /\ 4 * (n + 1) <= Len(f) /\ Len(f) >= 8
    <2>. DEFINE l == Len(FlattenSeq(parts))
    <2>1. l \in Nat
        BY FlattenLength, Zenon
    <2>2. Len(f) = 4 * (n + 1) + l
        BY <1>2, Zenon
    <2>. HIDE DEF f, l
    <2>3. /\ 4 * (n + 1) + l \in Nat
          /\ 4 * (n + 1) <= 4 * (n + 1) + l
          /\ 4 * (n + 1) + l >= 8
        BY <2>1, LegacySizes, Zenon
    <2>. QED  BY <2>2, <2>3, Zenon
<1>4. ReadBE32(f, 0) = n /\ \A i \in 1..n : ReadBE32(f, 4 * i) = o(i)
    BY <1>1, LegacyReads, Zenon
<1>5. /\ o(1) = 4 * (n + 1)
      /\ o(n + 1) = Len(f)
      /\ \A i \in 1..n : Slice(f, o(i), o(i + 1)) = parts[i]
    <2>1. /\ o(1) = 4 * (n + 1)
          /\ o(Len(parts) + 1) = Len(f)
          /\ \A i \in 1..Len(parts) :
                o(i) <= o(i + 1) /\ Slice(f, o(i), o(i + 1)) = parts[i]
        BY <1>1, <1>2, PartsInFrame, Zenon
    <2>. HIDE DEF f, o
    <2>. QED  BY <2>1, Zenon
<1>. HIDE DEF f, o
<1>6. ReadBE32(f, 4) = 4 * (n + 1)
    <2>1. 4 * 1 = 4 /\ 1 \in 1..n
        BY Counts, Zenon
    <2>. QED  BY <1>4, <1>5, <2>1, Zenon
<1>7. LegacyTable(f)
    BY <1>3, <1>4, <1>6, Zenon DEF LegacyTable
<1>8. ASSUME NEW i \in 1..n
      PROVE  Slice(f, IF i <= n THEN ReadBE32(f, 4 * i) ELSE Len(f),
                      IF i + 1 <= n THEN ReadBE32(f, 4 * (i + 1)) ELSE Len(f))
                = parts[i]
    <2>1. i <= n
        BY Counts, Zenon
    <2>2. CASE i + 1 <= n
        <3>1. i + 1 \in 1..n
            BY <2>2, Counts, Zenon
        <3>. QED  BY <1>4, <1>5, <2>1, <2>2, <3>1, Zenon
    <2>3. CASE ~(i + 1 <= n)
        <3>1. i = n
            BY <2>3, Counts, Zenon
        <3>. QED  BY <1>4, <1>5, <2>1, <2>3, <3>1, Zenon
    <2>. QED  BY <2>2, <2>3, Zenon
<1>9. LegacyParts(f) = parts
    <2>1. LegacyParts(f) = [i \in 1..n |-> parts[i]]
        BY <1>4, <1>8, Zenon DEF LegacyParts
    <2>2. parts = [i \in 1..n |-> parts[i]]
        BY SeqIsFunction, Zenon
    <2>. QED  BY <2>1, <2>2, Zenon
<1>. QED  BY <1>7, <1>9, Zenon DEF f

------------------------------------------------------------------------------
(* What is not taken for a frame. *)

LEMMA LowBytes ==
    ASSUME NEW q \in Short
    PROVE  q % 256 # 0 \/ (q \div 256) % 256 # 0
<1>. DEFINE x == q \div 256
            r == q % 256
<1>0. q \in Nat /\ q < 65536 /\ q # 0
    BY SMT DEF Short
<1>1. x \in Nat /\ r \in Nat /\ q = 256 * x + r
    BY <1>0, SMT
<1>2. x < 256 => x % 256 = x
    BY <1>1, SMT
<1>. HIDE DEF x, r
<1>3. x < 256
    BY <1>0, <1>1, SMT
<1>4. r # 0 \/ x # 0
    BY <1>0, <1>1, SMT
<1>5. r # 0 \/ x % 256 # 0
    BY <1>2, <1>3, <1>4, SMT
<1>. QED  BY <1>5, SMT DEF x, r

LEMMA LE64Low ==
    ASSUME NEW n
    PROVE  LE64(n)[1] = n % 256 /\ LE64(n)[2] = (n \div 256) % 256
BY SMT DEF LE64

LEMMA BE32Low ==
    ASSUME NEW n
    PROVE  BE32(n)[4] = n % 256 /\ BE32(n)[3] = (n \div 256) % 256
BY SMT DEF BE32

LEMMA Positions ==
    /\ 3 \in 1..4 /\ 4 \in 1..4 /\ 4 * 1 + 3 = 7 /\ 4 * 1 + 4 = 8
    /\ 7 \in 5..8 /\ 8 \in 5..8 /\ 0 + 7 = 7 /\ 0 + 8 = 8
OBVIOUS

LEMMA LongEnough ==
    ASSUME NEW n \in Nat, NEW l \in Nat
    PROVE  8 * (n + 1) <= 8 * (n + 1) + l
OBVIOUS

\* A word with one of its high bytes set.
LEMMA HighBytes ==
    ASSUME NEW f, \E i \in 5..8 : f[0 + i] # 0
    PROVE  ReadLE64(f, 0) = Huge
BY SMT DEF ReadLE64

LEMMA LargerThanCounts ==
    ASSUME NEW w, w > MaxCount
    PROVE  w \notin 1..MaxCount
BY SMT DEF MaxCount

\* A number with one of its high bytes set.
LEMMA LegacyCount ==
    ASSUME NEW f, f[1] \in Nat, f[2] \in Nat, f[3] \in Nat, f[4] \in Nat,
           f[1] # 0 \/ f[2] # 0
    PROVE  ReadBE32(f, 0) \notin 1..MaxCount
<1>. DEFINE a == f[1]
            b == f[2]
            c == f[3]
            d == f[4]
            w == 16777216 * a + 65536 * b + 256 * c + d
<1>1. ReadBE32(f, 0) = Huge \/ ReadBE32(f, 0) = w
    BY SMT DEF ReadBE32
<1>2. a \in Nat /\ b \in Nat /\ c \in Nat /\ d \in Nat /\ (a # 0 \/ b # 0)
    OBVIOUS
<1>. HIDE DEF a, b, c, d
<1>3. w > MaxCount
    BY <1>2, SMT DEF MaxCount
<1>. HIDE DEF w
<1>4. w \notin 1..MaxCount
    BY <1>3, LargerThanCounts, Zenon
<1>5. Huge \notin 1..MaxCount
    BY HugeNumber, Zenon
<1>. QED  BY <1>1, <1>4, <1>5, Zenon

\* A frame with an offset where the high bytes of a count are.
LEMMA NoCount ==
    ASSUME NEW f, NEW q \in Short, \A j \in 1..4 : f[4 * 1 + j] = BE32(q)[j]
    PROVE  ~V1Table(f)
<1>1. f[7] = BE32(q)[3] /\ f[8] = BE32(q)[4]
    <2>1. f[4 * 1 + 3] = BE32(q)[3] /\ f[4 * 1 + 4] = BE32(q)[4]
        BY Positions, Zenon
    <2>2. 4 * 1 + 3 = 7 /\ 4 * 1 + 4 = 8
        OBVIOUS
    <2>. QED  BY <2>1, <2>2, Zenon
<1>2. f[7] # 0 \/ f[8] # 0
    <2>1. q % 256 # 0 \/ (q \div 256) % 256 # 0
        BY LowBytes, Zenon
    <2>2. BE32(q)[3] = (q \div 256) % 256 /\ BE32(q)[4] = q % 256
        BY BE32Low, Zenon
    <2>. QED  BY <1>1, <2>1, <2>2, Zenon
<1>3. \E i \in 5..8 : f[0 + i] # 0
    <2>1. CASE f[7] # 0
        <3>1. f[0 + 7] # 0
            BY <2>1, Positions, Zenon
        <3>. QED  BY <3>1, Positions, Zenon
    <2>2. CASE f[8] # 0
        <3>1. f[0 + 8] # 0
            BY <2>2, Positions, Zenon
        <3>. QED  BY <3>1, Positions, Zenon
    <2>. QED  BY <1>2, <2>1, <2>2, Zenon
<1>4. ReadLE64(f, 0) = Huge
    BY <1>3, HighBytes, Zenon
<1>5. Huge \notin 6..MaxCount
    BY HugeNumber, Zenon
<1>. QED  BY <1>4, <1>5, Zenon DEF V1Table

\* The first offset of a legacy frame is behind its count, where the high bytes
\* of the count of a v1 frame are.
LEMMA LegacyIsNotV1 ==
    ASSUME NEW parts \in Seq(Seq(Byte)), NEW n \in 1..MaxCount, n = Len(parts),
           Len(EncodeLegacy(parts)) < Huge
    PROVE  ~V1Table(EncodeLegacy(parts))
<1>. DEFINE f == EncodeLegacy(parts)
            q == PartOffset(4, n, parts, 1)
<1>1. n \in Nat /\ 4 \in {4, 8} /\ 1 \in 1..n
    BY Counts, Zenon
<1>2. /\ f \in Seq(Byte)
      /\ Len(f) = 4 * (n + 1) + Len(FlattenSeq(parts))
      /\ \A k \in 1..Len(FlattenSeq(parts)) : f[4 * (n + 1) + k] = FlattenSeq(parts)[k]
    BY <1>1, LegacyLayout, Zenon
<1>3. q = 4 * (n + 1)
    <2>. DEFINE o(i) == PartOffset(4, n, parts, i)
    <2>1. /\ o(1) = 4 * (n + 1)
          /\ o(Len(parts) + 1) = Len(f)
          /\ \A i \in 1..Len(parts) :
                o(i) <= o(i + 1) /\ Slice(f, o(i), o(i + 1)) = parts[i]
        BY <1>1, <1>2, PartsInFrame, Zenon
    <2>. QED  BY <2>1, Zenon
<1>4. \A j \in 1..4 : f[4 * 1 + j] = BE32(q)[j]
    <2>1. \A i \in 1..n : \A j \in 1..4 :
             f[4 * i + j] = BE32(PartOffset(4, n, parts, i))[j]
        BY <1>1, LegacyLayout, Zenon
    <2>. QED  BY <1>1, <2>1, Zenon
<1>. HIDE DEF f, q
<1>5. q \in Short
    <2>1. n \in Short /\ 4 * (n + 1) \in Short
        BY TwoBytes, Zenon
    <2>. QED  BY <1>3, <2>1, Zenon
<1>. QED  BY <1>4, <1>5, NoCount, Zenon DEF f

\* Two frames with the same bytes: w of them behind offset k, and all that
\* both have.
SameWord(g, f, k) == \A j \in 1..8 : g[k + j] = f[k + j]
SameBytes(g, f) == \A j \in 1..Len(g) : j <= Len(f) => g[j] = f[j]

LEMMA SameBytesSameWord ==
    ASSUME NEW f \in Seq(Byte), NEW g \in Seq(Byte), SameBytes(g, f),
           NEW k \in Nat, k + 8 <= Len(f), k + 8 <= Len(g)
    PROVE  SameWord(g, f, k)
<1>1. Len(f) \in Nat /\ Len(g) \in Nat
    OBVIOUS
<1>2. ASSUME NEW j \in 1..8 PROVE g[k + j] = f[k + j]
    <2>1. k + j \in 1..Len(g) /\ k + j <= Len(f)
        BY <1>1
    <2>. QED  BY <2>1, Zenon DEF SameBytes
<1>. QED  BY <1>2, Zenon DEF SameWord

LEMMA TableEnds ==
    ASSUME NEW n \in Nat, n >= 6, n <= MaxCount
    PROVE  /\ n \in 1..MaxCount /\ n \in 1..n /\ 8 * n \in Nat
           /\ \A l \in Nat : 8 * (n + 1) <= l => 8 * n + 8 <= l /\ 0 + 8 <= l
OBVIOUS

\* A frame with a table of n offsets, of which a reader of the same words learns
\* the count and the end.
HasTable(f, n) ==
    /\ 8 * (n + 1) <= Len(f)
    /\ SameWord(f, LE64(n), 0)
    /\ \A g : /\ SameWord(g, f, 0) => ReadLE64(g, 0) = n
              /\ SameWord(g, f, 8 * n) => ReadLE64(g, 8 * n) = Len(f)

\* A frame that begins like a v1 frame of another length.
LEMMA OtherLength ==
    ASSUME NEW f \in Seq(Byte), NEW n \in Nat, n >= 6, n <= MaxCount, HasTable(f, n),
           NEW g \in Seq(Byte), Len(g) # Len(f), SameBytes(g, f)
    PROVE  ~V1Table(g) /\ ~LegacyTable(g)
<1>. /\ 8 * (n + 1) <= Len(f)
     /\ SameWord(f, LE64(n), 0)
     /\ SameWord(g, f, 0) => ReadLE64(g, 0) = n
     /\ SameWord(g, f, 8 * n) => ReadLE64(g, 8 * n) = Len(f)
    BY Zenon DEF HasTable
<1>1. /\ n \in 1..MaxCount /\ n \in 1..n /\ 8 * n \in Nat
      /\ \A l \in Nat : 8 * (n + 1) <= l => 8 * n + 8 <= l /\ 0 + 8 <= l
    BY TableEnds, Zenon
<1>2. Len(f) \in Nat /\ Len(g) \in Nat /\ 0 \in Nat
    OBVIOUS
<1>3. ~V1Table(g)
    <2>1. SUFFICES ASSUME V1Table(g) PROVE FALSE
        OBVIOUS
    <2>2. PICK k \in 6..MaxCount :
              /\ k = ReadLE64(g, 0)
              /\ 8 * (k + 1) <= Len(g)
              /\ Offsets(g) \in Seq(Nat)
              /\ Len(Offsets(g)) = k
              /\ Offsets(g)[1] = 8 * (k + 1)
              /\ Offsets(g)[k] = Len(g)
              /\ \A i \in 1..(k - 1) : Offsets(g)[i] <= Offsets(g)[i + 1]
        BY <2>1, V1Offsets, Zenon
    <2>3. 0 + 8 <= Len(g)
        <3>1. k \in Nat /\ k >= 6
            BY SMT
        <3>. QED  BY <1>2, <2>2, <3>1, SMT
    <2>4. k = n
        <3>1. SameWord(g, f, 0)
            BY <1>1, <1>2, <2>3, SameBytesSameWord, Zenon
        <3>. QED  BY <2>2, <3>1, Zenon
    <2>5. ReadLE64(g, 8 * n) = Len(f)
        <3>1. 8 * n + 8 <= Len(f) /\ 8 * n + 8 <= Len(g)
            BY <1>1, <1>2, <2>2, <2>4, Zenon
        <3>2. SameWord(g, f, 8 * n)
            BY <1>1, <3>1, SameBytesSameWord, Zenon
        <3>. QED  BY <3>2, Zenon
    <2>6. Offsets(g)[n] = ReadLE64(g, 8 * n)
        <3>1. Offsets(g) = [i \in 1..n |-> ReadLE64(g, 8 * i)]
            BY <2>2, <2>4, Zenon DEF Offsets
        <3>. QED  BY <1>1, <3>1, Zenon
    <2>. QED  BY <2>2, <2>4, <2>5, <2>6, Zenon
<1>4. ASSUME Len(g) >= 8 PROVE ReadBE32(g, 0) \notin 1..MaxCount
    <2>1. /\ 1 \in 1..Len(g) /\ 2 \in 1..Len(g) /\ 3 \in 1..Len(g) /\ 4 \in 1..Len(g)
          /\ 0 + 8 <= Len(g) /\ 0 + 1 = 1 /\ 0 + 2 = 2 /\ 1 \in 1..8 /\ 2 \in 1..8
        BY <1>2, <1>4, SMT
    <2>2. SameWord(g, f, 0)
        BY <1>1, <1>2, <2>1, SameBytesSameWord, Zenon
    <2>3. /\ g[0 + 1] = f[0 + 1] /\ g[0 + 2] = f[0 + 2]
          /\ f[0 + 1] = LE64(n)[0 + 1] /\ f[0 + 2] = LE64(n)[0 + 2]
        BY <2>1, <2>2, Zenon DEF SameWord
    <2>4. g[1] = LE64(n)[1] /\ g[2] = LE64(n)[2]
        BY <2>1, <2>3, Zenon
    <2>5. n \in Short
        BY <1>1, TwoBytes, Zenon
    <2>6. g[1] # 0 \/ g[2] # 0
        <3>1. n % 256 # 0 \/ (n \div 256) % 256 # 0
            BY <2>5, LowBytes, Zenon
        <3>2. LE64(n)[1] = n % 256 /\ LE64(n)[2] = (n \div 256) % 256
            BY LE64Low, Zenon
        <3>. QED  BY <2>4, <3>1, <3>2, Zenon
    <2>7. g[1] \in Byte /\ g[2] \in Byte /\ g[3] \in Byte /\ g[4] \in Byte
        BY <2>1
    <2>8. g[1] \in Nat /\ g[2] \in Nat /\ g[3] \in Nat /\ g[4] \in Nat
        BY <2>7, ByteNumbers, Zenon
    <2>. HIDE DEF Huge
    <2>. QED  BY <2>6, <2>8, LegacyCount
<1>. QED  BY <1>3, <1>4, Zenon DEF LegacyTable

LEMMA V1HasTable ==
    ASSUME NEW parts \in Seq(Seq(Byte)), NEW n \in Nat, n = Len(parts) + 1,
           n >= 6, Len(EncodeV1(parts)) < Huge
    PROVE  EncodeV1(parts) \in Seq(Byte) /\ HasTable(EncodeV1(parts), n)
<1>. DEFINE f == EncodeV1(parts)
            o(i) == PartOffset(8, n, parts, i)
            l == Len(FlattenSeq(parts))
<1>1. n \in Nat /\ 8 \in {4, 8} /\ n \in 1..n
    OBVIOUS
<1>2. /\ f \in Seq(Byte)
      /\ Len(f) = 8 * (n + 1) + l
      /\ \A j \in 1..8 : f[j] = LE64(n)[j]
      /\ \A k \in 1..l : f[8 * (n + 1) + k] = FlattenSeq(parts)[k]
    BY <1>1, V1Layout, Zenon
<1>3. l \in Nat
    BY FlattenLength, Zenon
<1>4. /\ o(1) = 8 * (n + 1)
      /\ o(Len(parts) + 1) = Len(f)
      /\ \A i \in 1..Len(parts) :
            o(i) <= o(i + 1) /\ Slice(f, o(i), o(i + 1)) = parts[i]
    BY <1>1, <1>2, PartsInFrame, Zenon
<1>5. o(n) = Len(f)
    BY <1>4, Zenon
<1>6. \A j \in 1..8 : 0 + j = j
    OBVIOUS
<1>7. ASSUME NEW g
      PROVE  /\ SameWord(g, f, 0) => ReadLE64(g, 0) = n
             /\ SameWord(g, f, 8 * n) => ReadLE64(g, 8 * n) = Len(f)
    <2>1. /\ (\A j \in 1..8 : g[j] = f[j]) => ReadLE64(g, 0) = n
          /\ \A i \in 1..n :
                (\A j \in 1..8 : g[8 * i + j] = f[8 * i + j])
                    => ReadLE64(g, 8 * i) = o(i)
        BY V1Reads, Zenon
    <2>. HIDE DEF f, o, l
    <2>2. SameWord(g, f, 0) => ReadLE64(g, 0) = n
        BY <2>1, <1>6, Zenon DEF SameWord
    <2>3. SameWord(g, f, 8 * n) => ReadLE64(g, 8 * n) = Len(f)
        BY <1>1, <1>5, <2>1, Zenon DEF SameWord
    <2>. QED  BY <2>2, <2>3, Zenon
<1>. HIDE DEF f, o, l
<1>8. SameWord(f, LE64(n), 0)
    BY <1>2, <1>6, Zenon DEF SameWord
<1>9. 8 * (n + 1) <= Len(f)
    <2>1. 8 * (n + 1) <= 8 * (n + 1) + l
        BY <1>3, LongEnough, Zenon
    <2>. QED  BY <1>2, <2>1, Zenon
<1>10. HasTable(f, n)
    BY <1>7, <1>8, <1>9, Zenon DEF HasTable
<1>. QED  BY <1>2, <1>10, Zenon DEF f

------------------------------------------------------------------------------
(* Messages and their frames. *)

\* The numbers of offsets a decoder takes.
V1Count(n) == n \in Nat /\ n >= 6 /\ n <= MaxCount /\ n \in 6..MaxCount
LegacyCountOk(n) == n \in Nat /\ n \in 1..MaxCount

LEMMA CountsTaken ==
    ASSUME NEW max \in Nat, max + 6 <= MaxCount
    PROVE  /\ \A k \in 5..(5 + max) : V1Count(k + 1)
           /\ \A k \in 1..(1 + max) : LegacyCountOk(k)
BY SMT DEF V1Count, LegacyCountOk, MaxCount

LEMMA SentFits ==
    ASSUME NEW m \in BinaryMessages
    PROVE  Len(Encode(m)) < Huge
BY FramesAssumption, Zenon DEF Messages

LEMMA BinaryEncoded ==
    ASSUME NEW m \in BinaryMessages
    PROVE  Encode(m) = IF m.protocol = "v1" THEN EncodeV1(m.parts)
                       ELSE EncodeLegacy(m.parts)
<1>1. CASE m.protocol = "v1"
    BY <1>1 DEF Encode
<1>2. CASE m.protocol # "v1"
    <2>1. m = [protocol |-> "legacy", parts |-> m.parts]
        BY <1>2, LegacyMessage, Zenon
    <2>2. m.protocol = "legacy"
        BY <2>1
    <2>. QED  BY <1>2, <2>2 DEF Encode
<1>. QED  BY <1>1, <1>2, Zenon

LEMMA SentV1 ==
    ASSUME NEW m \in BinaryMessages, m.protocol = "v1"
    PROVE  /\ Encode(m) = EncodeV1(m.parts) /\ Len(EncodeV1(m.parts)) < Huge
           /\ V1Count(Len(m.parts) + 1)
<1>1. Encode(m) = EncodeV1(m.parts)
    BY BinaryEncoded, Zenon
<1>2. Len(Encode(m)) < Huge
    BY SentFits, Zenon
<1>3. Len(m.parts) \in 5..(5 + MaxBuffers)
    BY V1Message, Zenon
<1>4. \A k \in 5..(5 + MaxBuffers) : V1Count(k + 1)
    BY PartsAssumption, FramesAssumption, CountsTaken, Zenon
<1>. QED  BY <1>1, <1>2, <1>3, <1>4, Zenon

LEMMA SentLegacy ==
    ASSUME NEW m \in BinaryMessages, m.protocol # "v1"
    PROVE  /\ Encode(m) = EncodeLegacy(m.parts) /\ Len(EncodeLegacy(m.parts)) < Huge
           /\ LegacyCountOk(Len(m.parts))
<1>1. Encode(m) = EncodeLegacy(m.parts)
    BY BinaryEncoded, Zenon
<1>2. Len(Encode(m)) < Huge
    BY SentFits, Zenon
<1>3. Len(m.parts) \in 1..(1 + MaxBuffers)
    BY LegacyMessage, Zenon
<1>4. \A k \in 1..(1 + MaxBuffers) : LegacyCountOk(k)
    BY PartsAssumption, FramesAssumption, CountsTaken, Zenon
<1>. QED  BY <1>1, <1>2, <1>3, <1>4, Zenon

\* What is known of the frame of a message, by its parts.
LEMMA V1Frame ==
    ASSUME NEW parts \in Seq(Seq(Byte)), V1Count(Len(parts) + 1),
           Len(EncodeV1(parts)) < Huge
    PROVE  /\ EncodeV1(parts) \in Seq(Byte)
           /\ V1Table(EncodeV1(parts)) /\ V1Parts(EncodeV1(parts)) = parts
           /\ HasTable(EncodeV1(parts), Len(parts) + 1)
<1>. DEFINE n == Len(parts) + 1
<1>1. n \in Nat /\ n >= 6 /\ n <= MaxCount /\ n \in 6..MaxCount /\ n = Len(parts) + 1
    BY Zenon DEF V1Count
<1>. HIDE DEF n
<1>2. EncodeV1(parts) \in Seq(Byte) /\ HasTable(EncodeV1(parts), n)
    BY <1>1, V1HasTable, Zenon
<1>3. V1Table(EncodeV1(parts)) /\ V1Parts(EncodeV1(parts)) = parts
    <2>1. ASSUME NEW k \in 6..MaxCount, k = Len(parts) + 1
          PROVE  V1Table(EncodeV1(parts)) /\ V1Parts(EncodeV1(parts)) = parts
        BY <2>1, V1RoundTrip, Zenon
    <2>. QED  BY <1>1, <2>1, Zenon
<1>. QED  BY <1>1, <1>2, <1>3, Zenon

LEMMA LegacyFrame ==
    ASSUME NEW parts \in Seq(Seq(Byte)), LegacyCountOk(Len(parts)),
           Len(EncodeLegacy(parts)) < Huge
    PROVE  /\ EncodeLegacy(parts) \in Seq(Byte)
           /\ LegacyTable(EncodeLegacy(parts)) /\ LegacyParts(EncodeLegacy(parts)) = parts
           /\ ~V1Table(EncodeLegacy(parts))
<1>. DEFINE n == Len(parts)
<1>1. n \in Nat /\ n \in 1..MaxCount /\ n = Len(parts)
    BY Zenon DEF LegacyCountOk
<1>. HIDE DEF n
<1>2. EncodeLegacy(parts) \in Seq(Byte)
    BY <1>1, LegacyLayout, Zenon
<1>3. ASSUME NEW k \in 1..MaxCount, k = Len(parts)
      PROVE  /\ LegacyTable(EncodeLegacy(parts))
             /\ LegacyParts(EncodeLegacy(parts)) = parts
             /\ ~V1Table(EncodeLegacy(parts))
    <2>1. LegacyTable(EncodeLegacy(parts)) /\ LegacyParts(EncodeLegacy(parts)) = parts
        BY <1>3, LegacyRoundTrip, Zenon
    <2>2. ~V1Table(EncodeLegacy(parts))
        BY <1>3, LegacyIsNotV1, Zenon
    <2>. QED  BY <2>1, <2>2, Zenon
<1>4. /\ LegacyTable(EncodeLegacy(parts))
      /\ LegacyParts(EncodeLegacy(parts)) = parts
      /\ ~V1Table(EncodeLegacy(parts))
    BY <1>1, <1>3, Zenon
<1>. QED  BY <1>2, <1>4, Zenon

LEMMA SentTyped ==
    ASSUME NEW m \in Messages
    PROVE  Encode(m) \in Seq(Byte)
<1>1. CASE m \in BinaryMessages /\ m.protocol = "v1"
    <2>1. m.parts \in Seq(Seq(Byte))
        BY <1>1, V1Message, Zenon
    <2>. QED  BY <1>1, <2>1, SentV1, V1Frame, Zenon
<1>2. CASE m \in BinaryMessages /\ m.protocol # "v1"
    <2>1. m.parts \in Seq(Seq(Byte))
        BY <1>2, LegacyMessage, Zenon
    <2>. QED  BY <1>2, <2>1, SentLegacy, LegacyFrame, Zenon
<1>3. ASSUME NEW o \in Objects, m = [protocol |-> "text", parts |-> <<o>>]
      PROVE  Encode(m) \in Seq(Byte)
    <2>1. Encode(m) = o
        BY <1>3, TextMessage, Zenon
    <2>. QED  BY <2>1, PartsAssumption, Zenon
<1>. QED  BY <1>1, <1>2, <1>3, MessageFrames, Zenon

\* The channel and the objects of a v1 message pass the tests of its decoder.
LEMMA SentDecodes ==
    ASSUME NEW m \in BinaryMessages
    PROVE  DecodeBinary(Encode(m)) = m
<1>1. CASE m.protocol = "v1"
    <2>. DEFINE f == EncodeV1(m.parts)
    <2>1. /\ m = [protocol |-> "v1", parts |-> m.parts]
          /\ m.parts \in Seq(Seq(Byte))
          /\ m.parts[1] = <<115>>
          /\ \A i \in 2..5 : m.parts[i] \in Objects
        BY <1>1, V1Message, Zenon
    <2>2. Encode(m) = f /\ Len(f) < Huge /\ V1Count(Len(m.parts) + 1)
        BY <1>1, SentV1, Zenon
    <2>3. V1Table(f) /\ V1Parts(f) = m.parts
        BY <2>1, <2>2, V1Frame, Zenon
    <2>4. IsText(<<115>>)
        BY SMT DEF IsText
    <2>. HIDE DEF f
    <2>5. IsV1(f)
        BY <2>1, <2>3, <2>4, Zenon DEF IsV1, IsObject
    <2>6. DecodeBinary(f) = [protocol |-> "v1", parts |-> V1Parts(f)]
        BY <2>5, Zenon DEF DecodeBinary
    <2>. QED  BY <2>1, <2>2, <2>3, <2>6, Zenon
<1>2. CASE m.protocol # "v1"
    <2>. DEFINE f == EncodeLegacy(m.parts)
    <2>1. /\ m = [protocol |-> "legacy", parts |-> m.parts]
          /\ m.parts \in Seq(Seq(Byte))
          /\ m.parts[1] \in Objects
        BY <1>2, LegacyMessage, Zenon
    <2>2. Encode(m) = f /\ Len(f) < Huge /\ LegacyCountOk(Len(m.parts))
        BY <1>2, SentLegacy, Zenon
    <2>3. LegacyTable(f) /\ LegacyParts(f) = m.parts
        BY <2>1, <2>2, LegacyFrame, Zenon
    <2>4. ~V1Table(f)
        BY <2>1, <2>2, LegacyFrame, Zenon
    <2>. HIDE DEF f
    <2>5. ~IsV1(f)
        BY <2>4, Zenon DEF IsV1
    <2>6. DecodeBinary(f) = [protocol |-> "legacy", parts |-> LegacyParts(f)]
        BY <2>1, <2>3, <2>5, Zenon DEF DecodeBinary, IsObject
    <2>. QED  BY <2>1, <2>2, <2>3, <2>6, Zenon
<1>. QED  BY <1>1, <1>2, Zenon

\* A v1 frame that lost its end or got something behind it.
LEMMA DamagedSent ==
    ASSUME NEW m \in BinaryMessages, m.protocol = "v1", NEW g \in Seq(Byte),
           Len(g) # Len(Encode(m)), SameBytes(g, Encode(m))
    PROVE  DecodeBinary(g) = Error
<1>. DEFINE f == EncodeV1(m.parts)
            n == Len(m.parts) + 1
<1>1. Encode(m) = f /\ Len(f) < Huge /\ V1Count(n)
    BY SentV1, Zenon
<1>2. m.parts \in Seq(Seq(Byte))
    BY V1Message, Zenon
<1>3. f \in Seq(Byte) /\ HasTable(f, n)
    BY <1>1, <1>2, V1Frame, Zenon
<1>4. n \in Nat /\ n >= 6 /\ n <= MaxCount
    BY <1>1, Zenon DEF V1Count
<1>5. Len(g) # Len(f) /\ SameBytes(g, f)
    BY <1>1, Zenon
<1>. HIDE DEF f, n
<1>6. ~V1Table(g) /\ ~LegacyTable(g)
    BY <1>3, <1>4, <1>5, OtherLength, Zenon
<1>. QED  BY <1>6, Zenon DEF DecodeBinary, IsV1

------------------------------------------------------------------------------
(* Frames on their way. *)

(***************************************************************************)
(* The inductive invariant: a frame that nothing happened to is the one of *)
(* the message, and one that was cut or extended has the same bytes and    *)
(* another length.  Of a frame with a changed offset only its type counts. *)
(***************************************************************************)
WireInv ==
    /\ sent \in Messages
    /\ frame \in Seq(Byte)
    /\ damage \in {"none", "cut", "extended", "offset"}
    /\ damage = "none" => frame = Encode(sent)
    /\ damage \in {"cut", "extended"} =>
          Len(frame) # Len(Encode(sent)) /\ SameBytes(frame, Encode(sent))

LEMMA WireInvInit ==
    ASSUME Init PROVE WireInv
<1>1. sent \in Messages /\ frame = Encode(sent) /\ damage = "none"
    BY Zenon DEF Init
<1>2. frame \in Seq(Byte)
    BY <1>1, SentTyped, Zenon
<1>. QED  BY <1>1, <1>2, Zenon DEF WireInv

\* What is left of a frame, and a frame with one byte more.
LEMMA CutFrame ==
    ASSUME NEW f \in Seq(Byte), NEW n \in 0..(Len(f) - 1)
    PROVE  /\ SubSeq(f, 1, n) \in Seq(Byte)
           /\ Len(SubSeq(f, 1, n)) # Len(f)
           /\ SameBytes(SubSeq(f, 1, n), f)
<1>1. n \in Nat /\ Len(f) \in Nat /\ 0 \in Nat /\ 0 <= n /\ n <= Len(f) /\ n # Len(f)
    OBVIOUS
<1>2. /\ SubSeq(f, 0 + 1, n) \in Seq(Byte)
      /\ Len(SubSeq(f, 0 + 1, n)) = n - 0
      /\ \A i \in 1..(n - 0) : SubSeq(f, 0 + 1, n)[i] = f[0 + i]
    BY <1>1, SubSeqTyped, Zenon
<1>3. 0 + 1 = 1 /\ n - 0 = n /\ \A i \in 1..n : 0 + i = i
    BY <1>1
<1>4. /\ SubSeq(f, 1, n) \in Seq(Byte)
      /\ Len(SubSeq(f, 1, n)) = n
      /\ \A i \in 1..n : SubSeq(f, 1, n)[i] = f[i]
    BY <1>2, <1>3, Zenon
<1>. QED  BY <1>1, <1>4, Zenon DEF SameBytes

LEMMA ExtendedFrame ==
    ASSUME NEW f \in Seq(Byte)
    PROVE  /\ Append(f, 0) \in Seq(Byte)
           /\ Len(Append(f, 0)) # Len(f)
           /\ SameBytes(Append(f, 0), f)
<1>1. 0 \in Byte
    BY DEF Byte
<1>2. Append(f, 0) \in Seq(Byte) /\ Len(Append(f, 0)) # Len(f)
    BY <1>1
<1>3. ASSUME NEW j \in 1..Len(Append(f, 0)), j <= Len(f)
      PROVE  Append(f, 0)[j] = f[j]
    BY <1>1, <1>3
<1>. QED  BY <1>2, <1>3, Zenon DEF SameBytes

\* The words of the table are in the frame.
LEMMA TableInFrame ==
    ASSUME NEW k \in Nat, NEW l \in Nat, 8 * (k + 1) <= l, NEW i \in 1..k
    PROVE  8 * i \in Nat /\ 0 <= 8 * i /\ 8 * i <= l /\ 8 * i + 8 \in Nat
           /\ 8 * i + 8 <= l
OBVIOUS

LEMMA ChangedFrame ==
    ASSUME NEW f \in Seq(Byte), NEW k \in Nat, 8 * (k + 1) <= Len(f),
           NEW i \in 1..k, NEW n \in Nat
    PROVE  SubSeq(f, 1, 8 * i) \o LE64(n) \o SubSeq(f, 8 * i + 9, Len(f)) \in Seq(Byte)
<1>1. Len(f) \in Nat /\ 0 \in Nat
    OBVIOUS
<1>. DEFINE a == 8 * i
            b == a + 8
<1>2. a \in Nat /\ 0 <= a /\ a <= Len(f) /\ b \in Nat /\ b <= Len(f)
    BY <1>1, TableInFrame, Zenon
<1>3. b + 1 = a + 9 /\ 0 + 1 = 1 /\ Len(f) <= Len(f)
    BY <1>1, <1>2
<1>. HIDE DEF a, b
<1>4. SubSeq(f, 0 + 1, a) \in Seq(Byte)
    BY <1>1, <1>2, SubSeqTyped, Zenon
<1>5. SubSeq(f, b + 1, Len(f)) \in Seq(Byte)
    BY <1>1, <1>2, <1>3, SubSeqTyped, Zenon
<1>6. SubSeq(f, 1, a) \in Seq(Byte) /\ SubSeq(f, a + 9, Len(f)) \in Seq(Byte)
    BY <1>3, <1>4, <1>5, Zenon
<1>7. LE64(n) \in Seq(Byte)
    BY WordTyped, Zenon
<1>8. SubSeq(f, 1, a) \o LE64(n) \o SubSeq(f, a + 9, Len(f)) \in Seq(Byte)
    BY <1>6, <1>7
<1>. QED  BY <1>8, Zenon DEF a

LEMMA WireInvNext ==
    ASSUME WireInv, [Next]_vars PROVE WireInv'
<1>. /\ sent \in Messages
     /\ frame \in Seq(Byte)
     /\ damage \in {"none", "cut", "extended", "offset"}
     /\ damage = "none" => frame = Encode(sent)
     /\ damage \in {"cut", "extended"} =>
           Len(frame) # Len(Encode(sent)) /\ SameBytes(frame, Encode(sent))
    BY Zenon DEF WireInv
<1>1. CASE Cut
    <2>1. PICK n \in 0..(Len(frame) - 1) : frame' = SubSeq(frame, 1, n)
        BY <1>1, Zenon DEF Cut
    <2>2. frame = Encode(sent) /\ damage' = "cut" /\ sent' = sent
        BY <1>1, Zenon DEF Cut
    <2>3. frame' \in Seq(Byte) /\ Len(frame') # Len(frame) /\ SameBytes(frame', frame)
        BY <2>1, CutFrame, Zenon
    <2>. QED  BY <2>2, <2>3, Zenon DEF WireInv
<1>2. CASE Extended
    <2>1. frame' = Append(frame, 0)
        BY <1>2, Zenon DEF Extended
    <2>2. frame = Encode(sent) /\ damage' = "extended" /\ sent' = sent
        BY <1>2, Zenon DEF Extended
    <2>3. frame' \in Seq(Byte) /\ Len(frame') # Len(frame) /\ SameBytes(frame', frame)
        BY <2>1, ExtendedFrame, Zenon
    <2>. QED  BY <2>2, <2>3, Zenon DEF WireInv
<1>3. CASE OffsetChanged
    <2>1. PICK i \in 1..(Len(sent.parts) + 1), n \in 0..(Len(frame) + 1) :
              frame' = SubSeq(frame, 1, 8 * i) \o LE64(n)
                       \o SubSeq(frame, 8 * i + 9, Len(frame))
        BY <1>3, Zenon DEF OffsetChanged
    <2>2. frame = Encode(sent) /\ sent.protocol = "v1"
          /\ damage' = "offset" /\ sent' = sent
        BY <1>3, Zenon DEF OffsetChanged
    <2>. DEFINE k == Len(sent.parts) + 1
    <2>3. sent \in BinaryMessages
        BY <2>2, V1IsBinary, Zenon
    <2>4. sent.parts \in Seq(Seq(Byte))
        BY <2>2, <2>3, V1Message, Zenon
    <2>5. /\ Encode(sent) = EncodeV1(sent.parts) /\ Len(EncodeV1(sent.parts)) < Huge
          /\ V1Count(k)
        BY <2>2, <2>3, SentV1, Zenon
    <2>6. HasTable(frame, k)
        BY <2>2, <2>4, <2>5, V1Frame, Zenon
    <2>7. k \in Nat /\ 8 * (k + 1) <= Len(frame)
        BY <2>5, <2>6, Zenon DEF V1Count, HasTable
    <2>8. n \in Nat
        OBVIOUS
    <2>9. frame' \in Seq(Byte)
        BY <2>1, <2>7, <2>8, ChangedFrame, Zenon
    <2>. QED  BY <2>2, <2>9, Zenon DEF WireInv
<1>4. CASE UNCHANGED vars
    BY <1>4, Zenon DEF vars, WireInv
<1>. QED  BY <1>1, <1>2, <1>3, <1>4, Zenon DEF Next

LEMMA WireInvAlways == Spec => []WireInv
BY WireInvInit, WireInvNext, PTL DEF Spec

------------------------------------------------------------------------------
(* Theorems. *)

(***************************************************************************)
(* What the runner receives is a sequence of bytes, whatever happened to   *)
(* the frame of encode_v1_message or of a server on its way.               *)
(***************************************************************************)
THEOREM WireTypeCorrect == Spec => []TypeOK
<1>1. ASSUME WireInv PROVE TypeOK
    <2>1. frame \in Seq(Byte)
        BY <1>1, Zenon DEF WireInv
    <2>2. \A i \in DOMAIN frame : frame[i] \in Byte
        BY <2>1
    <2>. QED  BY <1>1, <2>2, Zenon DEF WireInv, TypeOK
<1>. QED  BY <1>1, WireInvAlways, PTL

(***************************************************************************)
(* decode_message_frame gives back every message of both protocols, for    *)
(* all JSON objects and all buffers, binary or text: nothing in a binary   *)
(* frame names its protocol, and no frame of the one is taken for a frame  *)
(* of the other.                                                           *)
(***************************************************************************)
THEOREM MessagesSurvive == Spec => []DecodesWhatWasSent
<1>1. ASSUME WireInv PROVE DecodesWhatWasSent
    <2>1. SUFFICES ASSUME damage = "none" PROVE Decoded = sent
        BY Zenon DEF DecodesWhatWasSent
    <2>2. sent \in Messages /\ frame = Encode(sent)
        BY <1>1, <2>1, Zenon DEF WireInv
    <2>3. CASE sent \in BinaryMessages /\ sent.protocol # "text"
        <3>1. DecodeBinary(frame) = sent
            BY <2>2, <2>3, SentDecodes, Zenon
        <3>. QED  BY <2>3, <3>1, Zenon DEF Decoded
    <2>4. ASSUME NEW o \in Objects, sent = [protocol |-> "text", parts |-> <<o>>]
          PROVE  Decoded = sent
        <3>1. sent.protocol = "text" /\ frame = o
            BY <2>2, <2>4, TextMessage, Zenon
        <3>2. DecodeText(o) = [protocol |-> "text", parts |-> <<o>>]
            BY Zenon DEF DecodeText, IsObject
        <3>. QED  BY <2>4, <3>1, <3>2, Zenon DEF Decoded
    <2>. QED  BY <2>2, <2>3, <2>4, MessageFrames, Zenon
<1>. QED  BY <1>1, WireInvAlways, PTL

(***************************************************************************)
(* decode_message_frame refuses a v1 frame that lost any number of bytes   *)
(* at its end or got one behind it.                                        *)
(***************************************************************************)
THEOREM DamageIsSeen == Spec => []DamagedIsRefused
<1>1. ASSUME WireInv PROVE DamagedIsRefused
    <2>1. SUFFICES ASSUME sent.protocol = "v1", damage \in {"cut", "extended"}
                   PROVE  Decoded = Error
        BY Zenon DEF DamagedIsRefused
    <2>2. /\ sent \in Messages /\ frame \in Seq(Byte)
          /\ Len(frame) # Len(Encode(sent)) /\ SameBytes(frame, Encode(sent))
        BY <1>1, <2>1, Zenon DEF WireInv
    <2>3. sent \in BinaryMessages
        BY <2>1, <2>2, V1IsBinary, Zenon
    <2>4. sent.protocol # "text"
        BY <2>1
    <2>5. DecodeBinary(frame) = Error
        BY <2>1, <2>2, <2>3, DamagedSent, Zenon
    <2>. QED  BY <2>4, <2>5, Zenon DEF Decoded
<1>. QED  BY <1>1, WireInvAlways, PTL

(***************************************************************************)
(* The parts _decode_v1_message returns are the bytes behind the table, in *)
(* their order and without a gap, whatever offsets the table had.          *)
(***************************************************************************)
THEOREM AcceptedPartsAreTheBody == Spec => []PartsAreTheBody
<1>1. ASSUME WireInv PROVE PartsAreTheBody
    <2>1. frame \in Seq(Byte)
        BY <1>1, Zenon DEF WireInv
    <2>2. SUFFICES ASSUME Decoded.protocol = "v1"
                   PROVE  FlattenSeq(Decoded.parts)
                             = SubSeq(frame, 8 * (Len(Decoded.parts) + 2) + 1, Len(frame))
        BY Zenon DEF PartsAreTheBody
    <2>3. DecodeText(frame).protocol \in {"text", "error"}
        BY DEF DecodeText, Error
    <2>4. Decoded = DecodeBinary(frame)
        <3>1. CASE sent.protocol = "text"
            <4>1. Decoded = DecodeText(frame)
                BY <3>1, Zenon DEF Decoded
            <4>. QED  BY <2>2, <2>3, <4>1
        <3>. QED  BY <3>1, Zenon DEF Decoded
    <2>. QED  BY <2>1, <2>2, <2>4, AcceptedIsRead, Zenon
<1>. QED  BY <1>1, WireInvAlways, PTL
===============================================================================
