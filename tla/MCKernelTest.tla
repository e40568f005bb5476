------------------------------ MODULE MCKernelTest ------------------------------
EXTENDS KernelTest, Bitwise

\* Words of 24 bits; numerals beyond are given by their low 24 bits.
WordSize == 2 ^ 24
HalfSize == 2 ^ 12

\* XorWords by six bits at a time
Table == [a \in 0 .. 63, b \in 0 .. 63 |-> a ^^ b]
XorPart(x, y, unit) == Table[(x \div unit) % 64, (y \div unit) % 64] * unit
XorWords(x, y) == XorPart(x, y, 1) + XorPart(x, y, 64) + XorPart(x, y, 64 ^ 2) + XorPart(x, y, 64 ^ 3)

Small == -6 .. 64
Numerals ==
  [s \in {ToString(n) : n \in Small} |-> CHOOSE n \in Small : ToString(n) = s]
  @@ ("4097" :> 4097) @@ ("16896" :> 16896)
  @@ ("0x7ED55D16" :> \hD55D16) @@ ("0xC761C23C" :> \h61C23C)
  @@ ("0xFD7046C5" :> \h7046C5) @@ ("0xB55A4F09" :> \h5A4F09)
  @@ ("3925396509" :> \hF8CC1D) @@ ("2899272192" :> \hCF6200)

HashValues == << \hD55D16, \h61C23C, \h5667B1, \hA2646C, \h7046C5, \h5A4F09 >>
FusedValue == Numerals["3925396509"]
FusedValue512 == Numerals["2899272192"]

Numbers(seed, k) == Times(k * 977 + seed, 10000019 % WORD)

Case(height, threads, rounds) == [height |-> height, threads |-> threads, rounds |-> rounds, seed |-> 1]
\* The first test is one of a single thread, the third one has no kernel, the next three have more threads
\* than fit at a time, one of them beyond the default tidrange, and the last one is that of the kernel's authors.
SomeCases ==
  {Case(1, 1, 1), Case(1, 32, 3), Case(2, 17, 2), Case(2, 50, 1), Case(1, 101, 1), Case(4, 40, 10), Case(10, 32, 16)}
================================================================================
