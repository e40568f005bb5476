-------------------------------- MODULE Machine --------------------------------
(***************************************************************************)
(* One core of the simulated machine (problem.py), for the instructions    *)
(* that the kernel compiler emits.  Memory is a function from addresses to *)
(* numbers.  A word of scratch is [val, by, from]: beside its number, the  *)
(* thread whose instruction wrote it and the addresses of the memory words *)
(* that it was computed from, which the machine does not keep.             *)
(***************************************************************************)
EXTENDS DataModel, Words

Nobody == -2
Word(val, by, from) == [val |-> val, by |-> by, from |-> from]
Zeroes(size) == [loc \in 0 .. size - 1 |-> Word(0, Nobody, {})]

-----------------------------------------------------------------------------
(* Machine.alu, valu, load, store and flow, lane by lane *)

Alu(op, x, y) ==
  CASE op = "+" -> Add(x, y)
    [] op = "-" -> (x - y) % WORD
    [] op = "*" -> Times(x, y)
    [] op = "^" -> XOR(x, y)
    [] op = "|" -> XOR(x, y) + BitwiseAnd(x, y)
    [] op = "<<" -> ShiftLeft(x, y)
    [] op = ">>" -> ShiftRight(x, y)
    [] op = "%" -> x % y
    [] op = "<" -> IF x < y THEN 1 ELSE 0
    [] op = "==" -> IF x = y THEN 1 ELSE 0

Lane(r, i) == r.addr + IF r.vec THEN i ELSE 0
Lanes(r) == 0 .. IF r.vec THEN VLEN - 1 ELSE 0

\* Operand k of lane i.
In(x, k, i, scratch) == scratch[Lane(x.lin.args[k], i)]
AllIn(x, i, scratch) == {In(x, k, i, scratch) : k \in 2 .. Len(x.lin.args)}

IsLoad(x) == x.lin.op \in {"load", "vload"}
IsStore(x) == x.lin.engine = "store"

\* The address that lane i of a load or store accesses.
Address(x, i, scratch) ==
  IF IsLoad(x) THEN In(x, 2, i, scratch).val + IF x.lin.op = "vload" THEN i ELSE 0
  ELSE In(x, 1, i, scratch).val + i

Val(x, i, scratch, mem) ==
  LET in(k) == In(x, k, i, scratch).val
      op == x.lin.op
  IN  CASE op = "const" -> x.lin.val % WORD
        [] op = "vbroadcast" -> in(2)
        [] op = "multiply_add" -> Add(Times(in(2), in(3)), in(4))
        [] op = "vselect" -> IF in(2) # 0 THEN in(3) ELSE in(4)
        [] IsLoad(x) -> mem[Address(x, i, scratch)]
        [] OTHER -> Alu(op, in(2), in(3))

\* What lane i of x leaves in the scratch.
Result(x, i, scratch, mem) ==
  Word(Val(x, i, scratch, mem), x.tid,
       UNION {w.from : w \in AllIn(x, i, scratch)} \cup IF IsLoad(x) THEN {Address(x, i, scratch)} ELSE {})

\* The scratch words that x reads.
Sources(x) ==
  LET first == IF IsStore(x) THEN 1 ELSE 2
  IN  {Lane(x.lin.args[k], i) : k \in first .. Len(x.lin.args), i \in Lanes(Last(x.lin.args))}

-----------------------------------------------------------------------------
(* Machine.step with one slot filled *)

\* The lanes of the register that x accesses memory for.
MemLanes(x) == Lanes(x.lin.args[IF IsStore(x) THEN 2 ELSE 1])

\* An access beyond the memory is an IndexError.
InBounds(x, scratch, mem) ==
  IsLoad(x) \/ IsStore(x) => \A i \in MemLanes(x) : Address(x, i, scratch) \in DOMAIN mem

ScratchAfter(x, scratch, mem) ==
  LET dest == x.lin.args[1]
  IN  IF IsStore(x) THEN scratch
      ELSE [loc \in RegRange(dest) |-> Result(x, loc - dest.addr, scratch, mem)] @@ scratch

\* The words that x stores, by address.
Stored(x, scratch) ==
  IF ~IsStore(x) THEN << >>
  ELSE LET at == Address(x, 0, scratch)
       IN  [a \in {at + i : i \in MemLanes(x)} |-> In(x, 2, a - at, scratch)]

MemAfter(x, scratch, mem) ==
  LET written == Stored(x, scratch)
  IN  IF IsStore(x) THEN [a \in DOMAIN written |-> written[a].val] @@ mem ELSE mem
================================================================================
