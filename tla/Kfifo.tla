-------------------------------- MODULE Kfifo --------------------------------
(***************************************************************************)
(* The ring buffer of mycache/src/struct/kfifo.c.  The indices in and out   *)
(* are unsigned and never reduced to the size: they wrap at 2^Bits, and the *)
(* size is a power of two.  The public operations run under a spinlock, so    *)
(* each is one step, and the unlocked ones are static.                      *)
(***************************************************************************)
EXTENDS Integers, Sequences

CONSTANTS Bytes,
          NoByte,      \* what is in memory that was never written
          Sizes,       \* sizes asked of kfifo_alloc
          Bits,        \* of an unsigned int: 32 in the code
          MaxLen       \* bound: bytes of a put or a get

ASSUME BitsAssumption == Bits \in 1..32

\* the assertions of kfifo_alloc and kfifo_init: not 0, and not over 0x80000000
ASSUME SizeAssumption == Sizes \subseteq 1..2^(Bits - 1)
ASSUME BoundAssumption == MaxLen \in Nat

VARIABLES size, buffer, in, out,
          call         \* the last call: its bytes (put or got) and what it returned

kfifoVars == <<size, buffer, in, out, call>>

Width == 2^Bits

IsPowerOf2(n) == \E w \in 0..(Bits - 1) : n = 2^w

\* the difference of unsigned numbers
Minus(a, b) == (a - b) % Width

Min2(a, b) == IF a < b THEN a ELSE b

\* an if of fls: when x has bits above the lowest b, these are shifted out and counted
Shift(a, b) == IF a.x >= 2^b THEN [x |-> a.x \div 2^b, r |-> a.r + b] ELSE a

\* mutant: the last step is forgotten
FlsShort(x) == Shift(Shift(Shift(Shift([x |-> x, r |-> 0], 16), 8), 4), 2).r

\* the position of the highest bit, by halving
Fls(x) == Shift(Shift(Shift(Shift(Shift([x |-> x, r |-> 0], 16), 8), 4), 2), 1).r

RoundupPowOfTwo(n) ==
    IF n = 0 THEN 0 ELSE 2^(IF n >= 2^(Bits - 1) THEN Bits - 1 ELSE Fls(n) + 1)

\* the size kfifo_alloc gives
SizeFor(n) == IF IsPowerOf2(n) THEN n ELSE RoundupPowOfTwo(n)

\* kfifo_alloc and kfifo_init, for one of the sizes
KfifoInit ==
    /\ size \in {SizeFor(n) : n \in Sizes}
    /\ buffer = [i \in 0..(size - 1) |-> NoByte]
    /\ in = 0 /\ out = 0 /\ call = [op |-> "none", bytes |-> <<>>, ret |-> 0]

Called(op, bs, n) == call' = [op |-> op, bytes |-> bs, ret |-> n]

\* x & (size - 1)
At(x) == x % size

\* mutant: the free space is one byte too large
Room == Minus(size + 1, Minus(in, out))

\* fifo->size - fifo->in + fifo->out
Free == Minus(size, Minus(in, out))

\* mutant: the second memcpy starts where the first ended in the buffer
CopyStraight(bs, n) ==
    [i \in DOMAIN buffer |->
        IF At(in) <= i /\ i < At(in) + n THEN bs[i - At(in) + 1] ELSE buffer[i]]

\* the two memcpys of put: to the end of the buffer, and the rest to its beginning
CopyIn(bs, n) ==
    LET l == Min2(n, size - At(in))
    IN  [i \in DOMAIN buffer |->
            IF At(in) <= i /\ i < At(in) + l THEN bs[i - At(in) + 1]
            ELSE IF i < n - l THEN bs[i + l + 1] ELSE buffer[i]]

\* the two memcpys of get
CopyOut(n) ==
    LET l == Min2(n, size - At(out))
    IN  [i \in 1..n |-> IF i <= l THEN buffer[At(out) + i - 1] ELSE buffer[i - l - 1]]

KfifoPut(bs) ==
    LET n == Min2(Len(bs), Free)
    IN  /\ buffer' = IF n = 0 THEN buffer ELSE CopyIn(bs, n)
        /\ in' = (in + n) % Width
        /\ Called("put", bs, n)
        /\ UNCHANGED <<size, out>>

\* an empty fifo starts over at 0
KfifoGet(len) ==
    LET n     == Min2(len, Minus(in, out))
        empty == (out + n) % Width = in
    IN  /\ Called("get", IF n = 0 THEN <<>> ELSE CopyOut(n), n)
        /\ out' = IF empty THEN 0 ELSE (out + n) % Width
        /\ in' = IF empty THEN 0 ELSE in
        /\ UNCHANGED <<size, buffer>>

KfifoReset ==
    /\ in' = 0 /\ out' = 0 /\ Called("reset", <<>>, 0)
    /\ UNCHANGED <<size, buffer>>

KfifoLen ==
    /\ Called("len", <<>>, Minus(in, out))
    /\ UNCHANGED <<size, buffer, in, out>>

KfifoNext ==
    \/ KfifoReset \/ KfifoLen
    \/ \E len \in 0..MaxLen : KfifoGet(len) \/ \E bs \in [1..len -> Bytes] : KfifoPut(bs)

KfifoSpec == KfifoInit /\ [][KfifoNext]_kfifoVars

-----------------------------------------------------------------------------
\* types of the variables, and no more bytes than the buffer has
KfifoTypeOK ==
    /\ size \in Nat
    /\ buffer \in [0..(size - 1) -> Bytes \cup {NoByte}]
    /\ in \in 0..(Width - 1) /\ out \in 0..(Width - 1)
    /\ Minus(in, out) <= size

(***************************************************************************)
(* kfifo_alloc gives a power of two, as the masks of put and get need, and *)
(* the least one that is not less than what is asked for, with the halving *)
(* steps of fls.                                                           *)
(***************************************************************************)
SizeRounded ==
    /\ IsPowerOf2(size)
    /\ \A n \in Sizes : IsPowerOf2(SizeFor(n)) /\ n <= SizeFor(n) /\ SizeFor(n) < 2 * n

\* the bytes between out and in
Contents == [i \in 1..Minus(in, out) |-> buffer[At((out + i - 1) % Width)]]

Queue == INSTANCE ByteFifo WITH held <- Contents

(***************************************************************************)
(* However often the indices have wrapped, and wherever the data are       *)
(* in the ring, put, get, reset and len answer as a bounded queue does.    *)
(***************************************************************************)
ImplementsByteFifo == Queue!ByteSpec

=============================================================================
