------------------------- MODULE SweepProgramProofs -------------------------
(***************************************************************************)
(* For every command line, every width of the integers and every size of   *)
(* the store: what test2.c computes in 64 bits as the size of its store is *)
(* the real size, populate puts every block where block_ptr finds it, no   *)
(* failure leaks, frees twice or leaves a reader without what it uses, and *)
(* exit status 0 means that every sweep was done.                          *)
(*                                                                         *)
(* Sizes: parse_args lets through positive 32-bit numbers only             *)
(* (WellFormed); the chunks of a block are no more than the requests, so   *)
(* the one product main does not check is below 2^64, and the other two    *)
(* are checked.  Places: populate is two nested concatenations of pieces   *)
(* of one length, so slot x of block b is the entry b * Width + x of the   *)
(* store (PlaceHolds), which is what block_ptr computes with division and  *)
(* remainder (PtrIsPlace).                                                 *)
(*                                                                         *)
(* Sweeps: c is always a power of two within the range, and the step of    *)
(* the loop doubles it or ends the round, never wraps (Advances); readers  *)
(* from created on do not exist, and main leaves a sweep only when the     *)
(* others have exited (ReaderInv).  Rows: there are as many as powers      *)
(* before c in the rounds up to this one, the last is before <<round, c>>  *)
(* (RowInv), and no power of two lies between c and 2c (PowersApart).      *)
(* With as many rounds as a 32-bit number can be there is nothing to say   *)
(* of the rows: round never exceeds them, so main never returns 0.         *)
(*                                                                         *)
(* Waits: the count at the gate is the number of readers that have come    *)
(* and main expects those it created (GateInv), so a count that is short   *)
(* leaves a reader on its way (SomebodyToCome).                            *)
(***************************************************************************)
EXTENDS SweepProgram, DataLemmas

WellFormed(p) ==
  /\ p.requests \in Nat \ {0} /\ p.req_per_blocks \in Nat \ {0}
  /\ p.chunk_slots \in Nat \ {0} /\ p.block_bytes \in Nat \ {0}

\* The slots that one block of every request takes.
Width(p) == ChunksPerBlock(p) * p.chunk_slots

-----------------------------------------------------------------------------
(* Numbers *)

\* A product whose second factor is within the quotient does not exceed m.
LEMMA ProductFits ==
  ASSUME NEW m \in Nat, NEW a \in Nat \ {0}, NEW b \in Nat, b <= m \div a
  PROVE  a * b \in 0 .. m
  <1> DEFINE q == m \div a
  <1>1. m = a * q + (m % a) /\ q \in Int /\ m % a \in 0 .. a - 1
    BY DivModIs
  <1>2. q - b \in Nat
    BY <1>1
  <1> HIDE DEF q
  <1>3. a * (q - b) \in Nat /\ a * (q - b) = a * q - a * b /\ a * b \in Nat
    BY <1>1, <1>2
  <1> QED
    BY <1>1, <1>3

LEMMA ProductOfSmaller ==
  ASSUME NEW m \in Nat, NEW a \in 0 .. m, NEW b \in 0 .. m
  PROVE  a * b \in Nat /\ a * b <= m * m
  <1>1. a * (m - b) \in Nat /\ (m - a) * m \in Nat /\ m - a \in Nat
    OBVIOUS
  <1>2. a * (m - b) = a * m - a * b /\ (m - a) * m = m * m - a * m
    OBVIOUS
  <1>3. a * b \in Nat /\ a * m \in Nat /\ m * m \in Nat
    OBVIOUS
  <1> QED
    BY <1>1, <1>2, <1>3

LEMMA Unwrapped == ASSUME NEW x \in 0 .. MaxU64 PROVE U64(x) = x
  <1>1. MaxU64 + 1 \in Nat \ {0} /\ x \in 0 .. (MaxU64 + 1) - 1 /\ x \in Int
    BY WidthAssumption
  <1>2. x = (MaxU64 + 1) * 0 + x
    BY <1>1
  <1> DEFINE n == MaxU64 + 1
  <1>3. n \in Nat \ {0} /\ x \in 0 .. n - 1 /\ x = n * 0 + x
    BY <1>1, <1>2
  <1> HIDE DEF n
  <1>4. x % n = x
    BY <1>1, <1>3, RemainderOf
  <1> QED
    BY <1>4 DEF n, U64

\* checked_mul_u64 either reports an overflow or returns the product.
LEMMA CheckedMul ==
  ASSUME NEW a \in Nat \ {0}, NEW b \in Nat, checked_mul_u64(a, b) # Bad
  PROVE  checked_mul_u64(a, b) = a * b /\ a * b \in 0 .. MaxU64
  <1>1. b <= MaxU64 \div a /\ MaxU64 \in Nat
    BY WidthAssumption DEF checked_mul_u64
  <1>2. a * b \in 0 .. MaxU64
    BY <1>1, ProductFits
  <1> QED
    BY <1>1, <1>2, Unwrapped DEF checked_mul_u64

-----------------------------------------------------------------------------
(* parse_args and the sizes *)

\* What is left of the values given is the last of them, and that is good.
LEMMA TakenIs ==
  ASSUME NEW n \in Nat, NEW values, values = [k \in 1 .. n |-> values[k]],
         NEW default, Taken(values, default) # Bad
  PROVE  \/ Taken(values, default) = default
         \/ \E k \in 1 .. n : Taken(values, default) = values[k]
  <1>1. CASE values = <<>>
    BY <1>1 DEF Taken
  <1>2. CASE values # <<>>
    <2>1. Len(values) = n /\ n # 0
      BY <1>2
    <2>2. Bad \notin Range(values) /\ Taken(values, default) = Last(values)
      BY <1>2 DEF Taken
    <2>3. Last(values) = values[n] /\ n \in 1 .. n
      BY <2>1 DEF Last
    <2> QED
      BY <2>2, <2>3
  <1> QED
    BY <1>1, <1>2

LEMMA ArgIs == \A t : parse_u32_arg(t) = Bad \/ parse_u32_arg(t) \in 1 .. MaxU32
  BY DEF parse_u32_arg

LEMMA GivenIs ==
  ASSUME NEW o \in CommandLines,
         NEW name \in {"requests", "req_per_blocks", "chunk_slots", "rounds", "sweep_min",
                       "sweep_max"},
         NEW default \in 1 .. MaxU32, Given(o, name, default) # Bad
  PROVE  Given(o, name, default) \in 1 .. MaxU32
  <1> DEFINE values == [k \in DOMAIN o[name] |-> parse_u32_arg(o[name][k])]
  <1>1. PICK n \in Nat : DOMAIN o[name] = 1 .. n
    <2>1. o[name] \in Seq(Token)
      BY CommandAssumption
    <2> QED
      BY <2>1, LenProperties
  <1>2. /\ values = [k \in 1 .. n |-> values[k]]
        /\ \A k \in 1 .. n : values[k] = Bad \/ values[k] \in 1 .. MaxU32
    BY <1>1, ArgIs
  <1>3. Given(o, name, default) = Taken(values, default)
    BY DEF Given
  <1> HIDE DEF values
  <1> QED
    BY <1>2, <1>3, TakenIs

LEMMA BlockBytesIs ==
  ASSUME NEW o \in CommandLines, Parsed(o).block_bytes # Bad
  PROVE  Parsed(o).block_bytes \in Int
  <1> DEFINE values == [k \in DOMAIN o.block |-> BlockBytes(o.block[k][1], o.block[k][2])]
  <1>1. PICK n \in Nat : DOMAIN o.block = 1 .. n
    <2>1. o.block \in Seq({"mb", "bytes"} \X Token)
      BY CommandAssumption
    <2> QED
      BY <2>1, LenProperties
  <1>2. \A unit, t : BlockBytes(unit, t) # Bad => BlockBytes(unit, t) \in Int
    <2> SUFFICES ASSUME NEW unit, NEW t, BlockBytes(unit, t) # Bad
                 PROVE  BlockBytes(unit, t) \in Int
      OBVIOUS
    <2>1. CASE unit = "mb"
      <3>1. BlockBytes(unit, t) = BlockFromMb(t)
        BY <2>1 DEF BlockBytes
      <3>2. BlockFromMb(t) = U32(parse_u32_arg(t) * Mega) /\ parse_u32_arg(t) \in 1 .. MaxU32
        BY <3>1, ArgIs DEF BlockFromMb
      <3>3. MaxU32 + 1 \in Nat \ {0} /\ parse_u32_arg(t) * Mega \in Int
        BY <3>2, WidthAssumption
      <3> QED
        BY <3>1, <3>2, <3>3 DEF U32
    <2>2. CASE unit # "mb"
      BY <2>2, ArgIs DEF BlockBytes
    <2> QED
      BY <2>1, <2>2
  <1>3. values = [k \in 1 .. n |-> values[k]]
    BY <1>1
  <1>4. \A k \in 1 .. n : values[k] # Bad => values[k] \in Int
    BY <1>1, <1>2
  <1>5. Parsed(o).block_bytes = Taken(values, Defaults.block_bytes)
    BY DEF Parsed
  <1>6. Defaults.block_bytes \in Int
    BY DefaultsAssumption
  <1> HIDE DEF values
  <1> QED
    BY <1>3, <1>4, <1>5, <1>6, TakenIs

LEMMA ParsedSizes ==
  ASSUME NEW o \in CommandLines, Accepted(Parsed(o))
  PROVE  /\ WellFormed(Parsed(o))
         /\ Parsed(o).requests <= MaxU32 /\ Parsed(o).req_per_blocks <= MaxU32
  <1> DEFINE p == Parsed(o)
  <1>1. /\ p.requests = Given(o, "requests", Defaults.requests)
        /\ p.req_per_blocks = Given(o, "req_per_blocks", Defaults.req_per_blocks)
        /\ p.chunk_slots = Given(o, "chunk_slots", Defaults.chunk_slots)
    BY DEF Parsed
  <1>2. /\ p.requests # Bad /\ p.req_per_blocks # Bad /\ p.chunk_slots # Bad
        /\ p.block_bytes >= MinBlock /\ p.block_bytes # Bad
    BY DEF Accepted, Numeric
  <1>3. /\ p.requests \in 1 .. MaxU32 /\ p.req_per_blocks \in 1 .. MaxU32
        /\ p.chunk_slots \in 1 .. MaxU32
    BY <1>1, <1>2, GivenIs, DefaultsAssumption
  <1>4. p.block_bytes \in Int
    BY <1>2, BlockBytesIs
  <1> HIDE DEF p
  <1>5. p.block_bytes \in Nat \ {0}
    BY <1>2, <1>4, WidthAssumption
  <1>6. /\ p.requests \in Nat \ {0} /\ p.req_per_blocks \in Nat \ {0}
        /\ p.chunk_slots \in Nat \ {0}
        /\ p.requests <= MaxU32 /\ p.req_per_blocks <= MaxU32
    BY <1>3, WidthAssumption
  <1> QED
    BY <1>5, <1>6 DEF p, WellFormed

LEMMA ChunksOf ==
  ASSUME NEW p, WellFormed(p)
  PROVE  /\ ChunksPerBlock(p) \in Nat \ {0} /\ ChunksPerBlock(p) <= p.requests
         /\ p.requests <= Width(p) /\ Width(p) \in Nat \ {0}
  <1>1. /\ ChunksPerBlock(p) \in Nat \ {0}
        /\ p.requests <= Width(p) /\ ChunksPerBlock(p) <= p.requests
    BY RoundedUp DEF WellFormed, ChunksPerBlock, Width
  <1>2. Width(p) \in Nat
    BY <1>1 DEF WellFormed, Width
  <1> QED
    BY <1>1, <1>2 DEF WellFormed

\* The chunk count, which main computes unchecked, does not wrap.
LEMMA CountExact ==
  ASSUME NEW p, WellFormed(p), p.requests <= MaxU32, p.req_per_blocks <= MaxU32
  PROVE  /\ ChunkCount(p) = p.req_per_blocks * ChunksPerBlock(p)
         /\ ChunkCount(p) \in Nat \ {0}
  <1> DEFINE a == p.req_per_blocks
             b == ChunksPerBlock(p)
  <1>1. a \in Nat \ {0} /\ b \in Nat \ {0} /\ a <= MaxU32 /\ b <= MaxU32 /\ MaxU32 \in Nat
    BY ChunksOf, WidthAssumption DEF WellFormed
  <1>2. ChunkCount(p) = U64(a * b)
    BY DEF ChunkCount
  <1>3. MaxU64 = (MaxU32 + 1) * (MaxU32 + 1) - 1 /\ MaxU64 \in Nat
    BY WidthAssumption
  <1> HIDE DEF a, b
  <1>4. a * b \in Nat \ {0}
    <2>1. a - 1 \in Nat /\ (a - 1) * b \in Nat /\ a * b = (a - 1) * b + b
      BY <1>1
    <2> QED
      BY <1>1, <2>1
  <1>5. a * b <= MaxU32 * MaxU32
    <2>1. a \in 0 .. MaxU32 /\ b \in 0 .. MaxU32
      BY <1>1
    <2> QED
      BY <1>1, <2>1, ProductOfSmaller
  <1>6. MaxU64 = MaxU32 * MaxU32 + MaxU32 + MaxU32 /\ MaxU32 * MaxU32 \in Nat
    BY <1>1, <1>3
  <1>7. a * b \in 0 .. MaxU64
    BY <1>1, <1>3, <1>4, <1>5, <1>6
  <1>8. U64(a * b) = a * b
    BY <1>7, Unwrapped
  <1> QED
    BY <1>2, <1>4, <1>8 DEF a, b

-----------------------------------------------------------------------------
(* The places of the store *)

Piece(p) == Tag(p) \cup {Zeros}

\* Block b - 1 of every request, chunk behind chunk.
Stripe(p, b) == FlattenSeq([g \in 1 .. ChunksPerBlock(p) |-> Chunk(p, b - 1, g - 1)])

LEMMA StripeHolds ==
  ASSUME NEW p, WellFormed(p), NEW b \in 1 .. p.req_per_blocks
  PROVE  /\ Stripe(p, b) \in Seq(Piece(p)) /\ Len(Stripe(p, b)) = Width(p)
         /\ \A x \in 0 .. Width(p) - 1 : Stripe(p, b)[x + 1] = SlotContent(p, x, b - 1)
  <1> DEFINE n == ChunksPerBlock(p)
             len == p.chunk_slots
             s == [g \in 1 .. n |-> Chunk(p, b - 1, g - 1)]
             T == Piece(p)
  <1>1. n \in Nat \ {0} /\ len \in Nat \ {0} /\ len \in Nat /\ n * len = Width(p)
    BY ChunksOf DEF WellFormed, Width
  <1>2. ASSUME NEW g \in 1 .. n
        PROVE  /\ s[g] \in Seq(T) /\ Len(s[g]) = len
               /\ \A j \in 1 .. len : s[g][j] = SlotContent(p, (g - 1) * len + j - 1, b - 1)
    <2>1. s[g] = [slot \in 1 .. len |-> SlotContent(p, (g - 1) * len + slot - 1, b - 1)]
      BY DEF Chunk
    <2>2. \A j \in 1 .. len : SlotContent(p, (g - 1) * len + j - 1, b - 1) \in T
      <3> SUFFICES ASSUME NEW j \in 1 .. len
                   PROVE  SlotContent(p, (g - 1) * len + j - 1, b - 1) \in T
        OBVIOUS
      <3>1. (g - 1) * len \in Nat
        BY <1>1
      <3>2. (g - 1) * len + j - 1 \in Nat
        BY <1>1, <3>1
      <3> DEFINE x == (g - 1) * len + j - 1
      <3>3. x \in Nat /\ p.requests \in Nat /\ b - 1 \in 0 .. p.req_per_blocks - 1
        BY <3>2 DEF WellFormed
      <3> HIDE DEF x, len
      <3>4. SlotContent(p, x, b - 1) \in T
        BY <3>3 DEF SlotContent, Piece, Tag
      <3> QED
        BY <3>4 DEF x
    <2> QED
      BY <1>1, <2>1, <2>2
  <1>3. DOMAIN s = 1 .. n /\ Len(s) = n
    BY <1>1
  <1>4. /\ FlattenSeq(s) \in Seq(T) /\ Len(FlattenSeq(s)) = n * len
        /\ \A i \in 1 .. n, j \in 1 .. len : FlattenSeq(s)[Cell(len, i, j)] = s[i][j]
    <2> HIDE DEF s, n, len, T
    <2>1. \A g \in 1 .. n : s[g] \in Seq(T) /\ Len(s[g]) = len
      BY <1>2
    <2>2. n \in Nat \ {0} /\ len \in Nat
      BY <1>1
    <2> QED
      BY <1>3, <2>1, <2>2, FlattenInPlace
  <1>5. Stripe(p, b) = FlattenSeq(s)
    BY DEF Stripe
  <1>6. ASSUME NEW x \in 0 .. Width(p) - 1
        PROVE  FlattenSeq(s)[x + 1] = SlotContent(p, x, b - 1)
    <2>0. x \in Int /\ x \in 0 .. n * len - 1 /\ n * len \in Int
      BY <1>1
    <2> HIDE DEF s, n, len, T
    <2>1. PICK q \in Int, r \in 0 .. len - 1 : r = x % len /\ x = len * q + r
      BY <1>1, <2>0, DivMod
    <2>2. q \in 0 .. n - 1
      <3>1. len * q = q * len /\ q * len \in Int /\ n * len \in Int
        BY <1>1
      <3>2. ASSUME 0 - q - 1 \in Nat PROVE FALSE
        <4>1. (0 - q - 1) * len \in Nat /\ (0 - q - 1) * len = 0 - q * len - len
          BY <1>1, <3>2
        <4> QED
          BY <1>1, <2>0, <2>1, <3>1, <4>1
      <3>3. ASSUME q - n \in Nat PROVE FALSE
        <4>1. (q - n) * len \in Nat /\ (q - n) * len = q * len - n * len
          BY <1>1, <3>3
        <4> QED
          BY <1>1, <2>0, <2>1, <3>1, <4>1
      <3> QED
        BY <1>1, <3>2, <3>3
    <2>3. q + 1 \in 1 .. n /\ r + 1 \in 1 .. len /\ (q + 1) - 1 = q /\ (r + 1) - 1 = r
      BY <1>1, <2>2
    <2>4. Cell(len, q + 1, r + 1) = x + 1
      <3>1. Cell(len, q + 1, r + 1) = q * len + (r + 1) /\ q * len = len * q /\ len * q \in Int
        BY <1>1, <2>3 DEF Cell
      <3> QED
        BY <2>1, <3>1
    <2>5. s[q + 1][r + 1] = SlotContent(p, ((q + 1) - 1) * len + (r + 1) - 1, b - 1)
      BY <1>2, <2>3
    <2>6. ((q + 1) - 1) * len + (r + 1) - 1 = x
      <3>1. q * len = len * q /\ len * q \in Int
        BY <1>1
      <3> QED
        BY <2>1, <2>3, <3>1
    <2> QED
      BY <1>4, <2>3, <2>4, <2>5, <2>6
  <1> QED
    BY <1>1, <1>4, <1>5, <1>6

\* Slot x of block b: the requests are side by side, then zeros up to the full chunk.
Place(p, b, x) == b * Width(p) + x

LEMMA PlaceHolds ==
  ASSUME NEW p, WellFormed(p)
  PROVE  /\ Populated(p) \in Seq(Piece(p)) /\ Len(Populated(p)) = p.req_per_blocks * Width(p)
         /\ \A b \in 0 .. p.req_per_blocks - 1, x \in 0 .. Width(p) - 1 :
              Populated(p)[Place(p, b, x) + 1] = SlotContent(p, x, b)
  <1> DEFINE n == p.req_per_blocks
             len == Width(p)
             s == [b \in 1 .. n |-> Stripe(p, b)]
             T == Piece(p)
  <1>1. n \in Nat \ {0} /\ len \in Nat \ {0} /\ len \in Nat
    BY ChunksOf DEF WellFormed
  <1>2. \A i \in 1 .. n : s[i] \in Seq(T) /\ Len(s[i]) = len
    BY StripeHolds
  <1>3. DOMAIN s = 1 .. n /\ Len(s) = n
    BY <1>1
  <1>4. Populated(p) = FlattenSeq(s)
    BY DEF Populated, Stripe
  <1>5. /\ FlattenSeq(s) \in Seq(T) /\ Len(FlattenSeq(s)) = n * len
        /\ \A i \in 1 .. n, j \in 1 .. len : FlattenSeq(s)[Cell(len, i, j)] = s[i][j]
    <2> HIDE DEF s, n, len, T
    <2>1. n \in Nat \ {0} /\ len \in Nat
      BY <1>1
    <2> QED
      BY <1>2, <1>3, <2>1, FlattenInPlace
  <1>6. ASSUME NEW b \in 0 .. n - 1, NEW x \in 0 .. len - 1
        PROVE  FlattenSeq(s)[Place(p, b, x) + 1] = SlotContent(p, x, b)
    <2>1. /\ b + 1 \in 1 .. n /\ x + 1 \in 1 .. len /\ (b + 1) - 1 = b
          /\ b \in Int /\ x \in Int
      BY <1>1
    <2>2. s[b + 1][x + 1] = SlotContent(p, x, b)
      BY <2>1, StripeHolds
    <2>3. Cell(len, b + 1, x + 1) = Place(p, b, x) + 1
      <3>1. Cell(len, b + 1, x + 1) = b * len + (x + 1) /\ b * len \in Int
        <4> HIDE DEF len, n
        <4> QED
          BY <1>1, <2>1 DEF Cell
      <3>2. Place(p, b, x) = b * len + x
        BY DEF Place
      <3> HIDE DEF len, n
      <3> QED
        BY <1>1, <2>1, <3>1, <3>2
    <2> HIDE DEF s, n, len
    <2> QED
      BY <1>5, <2>1, <2>2, <2>3
  <1> QED
    BY <1>4, <1>5, <1>6

\* Where block_ptr looks for a block.
LEMMA PtrIsPlace ==
  ASSUME NEW p, WellFormed(p), NEW req \in 0 .. p.requests - 1,
         NEW blk \in 0 .. p.req_per_blocks - 1
  PROVE  block_ptr(p, req, blk) = Place(p, blk, req)
  <1> DEFINE n == ChunksPerBlock(p)
             len == p.chunk_slots
             q == req \div len
             r == req % len
  <1>1. n \in Nat \ {0} /\ len \in Nat \ {0} /\ req \in Int /\ blk \in Int
    BY ChunksOf DEF WellFormed
  <1>2. req = len * q + r /\ q \in Int /\ r \in Int
    <2> HIDE DEF len
    <2> QED
      BY <1>1, DivModIs
  <1>3. block_ptr(p, req, blk) = (blk * n + q) * len + r /\ Place(p, blk, req) = blk * (n * len) + req
    BY DEF block_ptr, Place, Width
  <1> HIDE DEF n, len, q, r
  <1>4. (blk * n + q) * len = (blk * n) * len + q * len /\ q * len = len * q
        /\ (blk * n) * len = blk * (n * len)
        /\ blk * (n * len) \in Int /\ len * q \in Int
    BY <1>1, <1>2
  <1> QED
    BY <1>2, <1>3, <1>4

\* A filled store has every block where block_ptr looks for it, and nowhere else.
LEMMA StoreIsPlaced ==
  ASSUME NEW p, WellFormed(p), NEW s, s = Populated(p)
  PROVE  /\ \A t \in Tag(p) : s[block_ptr(p, t[1], t[2]) + 1] = t
         /\ \A x \in DOMAIN s : s[x] \in Tag(p) => x = block_ptr(p, s[x][1], s[x][2]) + 1
  <1> DEFINE n == p.req_per_blocks
             len == Width(p)
             R == p.requests
  <1>1. n \in Nat \ {0} /\ len \in Nat \ {0} /\ R \in Nat \ {0} /\ R <= len /\ n * len \in Nat
    <2>1. n \in Nat \ {0} /\ len \in Nat \ {0} /\ R \in Nat \ {0} /\ R <= len
      BY ChunksOf DEF WellFormed
    <2> HIDE DEF n, len, R
    <2> QED
      BY <2>1
  <1>2. /\ s \in Seq(Piece(p)) /\ Len(s) = n * len
        /\ \A b \in 0 .. n - 1, x \in 0 .. len - 1 : s[Place(p, b, x) + 1] = SlotContent(p, x, b)
    BY PlaceHolds
  <1>3. \A req \in 0 .. R - 1, blk \in 0 .. n - 1 : block_ptr(p, req, blk) = Place(p, blk, req)
    BY PtrIsPlace
  <1>4. Tag(p) = (0 .. R - 1) \X (0 .. n - 1)
    BY DEF Tag
  <1>5. \A x, b : SlotContent(p, x, b) = IF x < R THEN <<x, b>> ELSE <<-1, 0>>
    BY DEF SlotContent, Zeros
  <1>6. \A b : Place(p, b, 0) = b * len + 0 /\ \A x : Place(p, b, x) = b * len + x
    BY DEF Place
  <1> HIDE DEF n, len, R
  <1>7. ASSUME NEW t \in Tag(p) PROVE s[block_ptr(p, t[1], t[2]) + 1] = t
    <2>1. PICK req \in 0 .. R - 1, blk \in 0 .. n - 1 : t = <<req, blk>>
      BY <1>4
    <2>2. req \in 0 .. len - 1 /\ req < R
      BY <1>1
    <2>3. s[Place(p, blk, req) + 1] = SlotContent(p, req, blk) /\ SlotContent(p, req, blk) = t
      BY <1>2, <1>5, <2>1, <2>2
    <2> QED
      BY <1>3, <2>1, <2>3
  <1>8. ASSUME NEW x \in DOMAIN s, s[x] \in Tag(p)
        PROVE  x = block_ptr(p, s[x][1], s[x][2]) + 1
    <2>1. x \in 1 .. n * len
      BY <1>2
    <2>2. x \in Int /\ x - 1 \in Int /\ x - 1 \in 0 .. n * len - 1
      BY <1>1, <2>1
    <2>3. PICK b \in Int, y \in 0 .. len - 1 : y = (x - 1) % len /\ x - 1 = len * b + y
      BY <1>1, <2>2, DivMod
    <2>4. b \in 0 .. n - 1
      <3>1. len * b = b * len /\ b * len \in Int
        BY <1>1
      <3>2. ASSUME 0 - b - 1 \in Nat PROVE FALSE
        <4>1. (0 - b - 1) * len \in Nat /\ (0 - b - 1) * len = 0 - b * len - len
          BY <1>1, <3>2
        <4> QED
          BY <1>1, <2>2, <2>3, <3>1, <4>1
      <3>3. ASSUME b - n \in Nat PROVE FALSE
        <4>1. (b - n) * len \in Nat /\ (b - n) * len = b * len - n * len
          BY <1>1, <3>3
        <4> QED
          BY <1>1, <2>2, <2>3, <3>1, <4>1
      <3> QED
        BY <1>1, <3>2, <3>3
    <2>5. Place(p, b, y) + 1 = x
      <3>1. Place(p, b, y) = b * len + y /\ b * len = len * b /\ len * b \in Int
        BY <1>1, <1>6
      <3> QED
        BY <2>2, <2>3, <3>1
    <2>6. s[x] = IF y < R THEN <<y, b>> ELSE <<-1, 0>>
      BY <1>2, <1>5, <2>4, <2>5
    <2>7. y < R /\ s[x] = <<y, b>>
      <3>1. <<-1, 0>> \notin Tag(p)
        BY <1>1, <1>4
      <3> QED
        BY <1>8, <2>6, <3>1
    <2>8. y \in 0 .. R - 1
      BY <1>1, <2>7
    <2> QED
      BY <1>3, <2>4, <2>5, <2>7, <2>8
  <1> QED
    BY <1>7, <1>8

-----------------------------------------------------------------------------
(* The invariants *)

Checked(p) == WellFormed(p) /\ p.requests <= MaxU32 /\ p.req_per_blocks <= MaxU32

SizeInv ==
  /\ main \notin {"args", "exit"} => Checked(cfg)
  /\ main \notin {"args", "sizes", "exit"} =>
       /\ chunk_bytes = cfg.chunk_slots * cfg.block_bytes
       /\ store_bytes = (cfg.req_per_blocks * ChunksPerBlock(cfg)) * chunk_bytes
       /\ store_bytes <= MaxU64

\* A store exists only once it is filled, and until the exit that frees it.
StoreInv ==
  store # <<>> => main \notin {"args", "sizes", "store", "exit"} /\ store = Populated(cfg)

PlaceInv == SizeInv /\ StoreInv

LEMMA InitPlace == Init => PlaceInv
  BY DEF Init, PlaceInv, SizeInv, StoreInv

\* The command line does not change.
LEMMA CommandKept == Spec => [](command \in CommandLines)
  <1>1. Init => command \in CommandLines
    BY DEF Init
  <1>2. command \in CommandLines /\ [Next]_vars => (command \in CommandLines)'
    BY DEF Next, MainStep, ParseArgs, SizeStore, AllocStore, OpenCsv, SkipSweep, AllSweepsDone,
       SweepFailed, SweepSucceeded, BeginSweep, CreateReader, CreateFails, AllCreated, OpenGate,
       JoinAndReport, Cleanup, ReaderStep, Arrive, PassGate, ReadBlocks, Exited, vars
  <1> QED
    BY <1>1, <1>2, PTL DEF Spec

LEMMA StepPlace == command \in CommandLines /\ PlaceInv /\ [Next]_vars => PlaceInv'
  <1> SUFFICES ASSUME command \in CommandLines, PlaceInv, [Next]_vars
               PROVE  PlaceInv'
    OBVIOUS
  <1> USE DEF PlaceInv, SizeInv, StoreInv, sizes, files, Exit
  <1>1. CASE ParseArgs
    <2>1. CASE Accepted(Parsed(command))
      <3>1. main' = "sizes" /\ cfg' = Parsed(command) /\ Checked(cfg') /\ store' = <<>>
        BY <1>1, <2>1, ParsedSizes DEF ParseArgs, Checked
      <3> QED
        BY <3>1
    <2>2. CASE ~Accepted(Parsed(command))
      BY <1>1, <2>2 DEF ParseArgs
    <2> QED
      BY <2>1, <2>2
  <1>2. CASE SizeStore
    <2>1. main = "sizes" /\ Checked(cfg) /\ store = <<>> /\ UNCHANGED <<cfg, store>>
      BY <1>2 DEF SizeStore
    <2>2. CASE main' = "exit"
      BY <2>1, <2>2
    <2>3. CASE main' # "exit"
      <3> DEFINE chunk == checked_mul_u64(cfg.chunk_slots, cfg.block_bytes)
                 bytes == checked_mul_u64(ChunkCount(cfg), chunk)
      <3>1. /\ chunk # Bad /\ bytes # Bad /\ main' = "store"
            /\ chunk_bytes' = chunk /\ store_bytes' = bytes
        BY <1>2, <2>3 DEF SizeStore
      <3>2. /\ cfg.chunk_slots \in Nat \ {0} /\ cfg.block_bytes \in Nat
            /\ ChunkCount(cfg) = cfg.req_per_blocks * ChunksPerBlock(cfg)
            /\ ChunkCount(cfg) \in Nat \ {0}
        BY <2>1, CountExact DEF Checked, WellFormed
      <3>3. chunk = cfg.chunk_slots * cfg.block_bytes /\ chunk \in Nat
        <4> DEFINE a == cfg.chunk_slots
                   b == cfg.block_bytes
        <4>1. a \in Nat \ {0} /\ b \in Nat /\ checked_mul_u64(a, b) # Bad
          BY <3>1, <3>2
        <4> HIDE DEF a, b
        <4>2. checked_mul_u64(a, b) = a * b /\ a * b \in Nat
          BY <4>1, CheckedMul
        <4> QED
          BY <4>2 DEF a, b
      <3>4. bytes = ChunkCount(cfg) * chunk /\ bytes <= MaxU64
        <4> HIDE DEF chunk
        <4> QED
          BY <3>1, <3>2, <3>3, CheckedMul
      <3> HIDE DEF chunk, bytes
      <3> QED
        BY <2>1, <3>1, <3>2, <3>3, <3>4
    <2> QED
      BY <2>2, <2>3
  <1>3. CASE AllocStore
    BY <1>3 DEF AllocStore
  <1>4. CASE OpenCsv \/ AllSweepsDone \/ SweepFailed
    BY <1>4 DEF OpenCsv, AllSweepsDone, SweepFailed
  <1>5. CASE UNCHANGED <<cfg, sizes, store>> /\ main \notin {"args", "sizes", "store", "exit"}
             /\ main' \notin {"args", "sizes", "store", "exit"}
    BY <1>5
  <1>6. CASE SkipSweep \/ SweepSucceeded \/ BeginSweep \/ CreateReader \/ CreateFails
             \/ AllCreated \/ OpenGate \/ JoinAndReport \/ Cleanup
    BY <1>5, <1>6 DEF SkipSweep, SweepSucceeded, BeginSweep, CreateReader, CreateFails,
       AllCreated, OpenGate, JoinAndReport, Cleanup
  <1>7. CASE UNCHANGED <<main, cfg, sizes, store>>
    BY <1>7
  <1>8. ASSUME NEW i \in Thread, ReaderStep(i)
        PROVE  PlaceInv'
    BY <1>7, <1>8 DEF ReaderStep, Arrive, PassGate, ReadBlocks
  <1>9. CASE Exited \/ UNCHANGED vars
    BY <1>7, <1>9 DEF Exited, vars
  <1> QED
    BY <1>1, <1>2, <1>3, <1>4, <1>6, <1>8, <1>9 DEF Next, MainStep

LEMMA AlwaysPlaced == Spec => []PlaceInv
  BY InitPlace, StepPlace, CommandKept, PTL DEF Spec

\* Whatever the command line, the sizes main allocates and populate fills are the
\* products they stand for: no product of the accepted arguments wraps.
THEOREM SizesAlwaysExact == Spec => []SizesAreExact
  <1>1. PlaceInv => SizesAreExact
    <2> SUFFICES ASSUME PlaceInv, main \notin {"args", "sizes", "exit"}
                 PROVE  /\ chunk_bytes = cfg.chunk_slots * cfg.block_bytes
                        /\ store_bytes = cfg.req_per_blocks
                              * ((cfg.requests + cfg.chunk_slots - 1) \div cfg.chunk_slots)
                              * cfg.chunk_slots * cfg.block_bytes
                        /\ store_bytes <= MaxU64
      BY DEF SizesAreExact
    <2>1. /\ Checked(cfg) /\ chunk_bytes = cfg.chunk_slots * cfg.block_bytes
          /\ store_bytes = (cfg.req_per_blocks * ChunksPerBlock(cfg)) * chunk_bytes
          /\ store_bytes <= MaxU64
      BY DEF PlaceInv, SizeInv
    <2> DEFINE a == cfg.req_per_blocks
               b == (cfg.requests + cfg.chunk_slots - 1) \div cfg.chunk_slots
               m == cfg.chunk_slots
               d == cfg.block_bytes
    <2>2. a \in Nat /\ b \in Nat /\ m \in Nat /\ d \in Nat /\ b = ChunksPerBlock(cfg)
      BY <2>1, ChunksOf DEF Checked, WellFormed, ChunksPerBlock
    <2>3. store_bytes = (a * b) * (m * d)
      BY <2>1, <2>2
    <2>4. (a * b) * (m * d) = a * b * m * d
      <3> HIDE DEF a, b, m, d
      <3> QED
        BY <2>2
    <2> QED
      BY <2>1, <2>3, <2>4
  <1> QED
    BY AlwaysPlaced, <1>1, PTL

\* Whatever the numbers of requests, blocks and slots, also when the last chunk of a
\* block is not full: each reader finds every one of its blocks where populate put it.
THEOREM BlocksAlwaysWhereRead == Spec => []BlocksAreWhereRead
  <1>1. PlaceInv => BlocksAreWhereRead
    <2> SUFFICES ASSUME PlaceInv, store # <<>>
                 PROVE  BlocksAreWhereRead
      BY DEF BlocksAreWhereRead
    <2>1. /\ WellFormed(cfg) /\ store = Populated(cfg)
          /\ store_bytes = (cfg.req_per_blocks * ChunksPerBlock(cfg))
                             * (cfg.chunk_slots * cfg.block_bytes)
      BY DEF PlaceInv, SizeInv, StoreInv, Checked
    <2>2. Len(store) = cfg.req_per_blocks * (ChunksPerBlock(cfg) * cfg.chunk_slots)
      BY <2>1, PlaceHolds DEF Width
    <2>3. Len(store) * cfg.block_bytes = store_bytes
      <3> DEFINE a == cfg.req_per_blocks
                 b == ChunksPerBlock(cfg)
                 m == cfg.chunk_slots
                 d == cfg.block_bytes
      <3>1. a \in Nat /\ b \in Nat /\ m \in Nat /\ d \in Nat
        BY <2>1, ChunksOf DEF WellFormed
      <3>2. (a * (b * m)) * d = (a * b) * (m * d)
        <4> HIDE DEF a, b, m, d
        <4> QED
          BY <3>1
      <3> QED
        BY <2>1, <2>2, <3>2
    <2>4. /\ \A t \in Tag(cfg) : store[block_ptr(cfg, t[1], t[2]) + 1] = t
          /\ \A x \in DOMAIN store : store[x] \in Tag(cfg) =>
               x = block_ptr(cfg, store[x][1], store[x][2]) + 1
      BY <2>1, StoreIsPlaced
    <2> QED
      BY <2>3, <2>4 DEF BlocksAreWhereRead
  <1> QED
    BY AlwaysPlaced, <1>1, PTL

-----------------------------------------------------------------------------
(* The sweeps *)

LEMMA ParsedLoops ==
  ASSUME NEW o \in CommandLines, Accepted(Parsed(o))
  PROVE  /\ {Parsed(o).rounds, Parsed(o).sweep_min, Parsed(o).sweep_max} \subseteq 1 .. MaxU32
         /\ Parsed(o).req_per_blocks \in Nat
  <1> DEFINE p == Parsed(o)
  <1>1. /\ p.rounds = Given(o, "rounds", Defaults.rounds)
        /\ p.sweep_min = Given(o, "sweep_min", Defaults.sweep_min)
        /\ p.requests = Given(o, "requests", Defaults.requests)
        /\ p.sweep_max = Given(o, "sweep_max", p.requests)
    BY DEF Parsed
  <1>2. p.rounds # Bad /\ p.sweep_min # Bad /\ p.sweep_max # Bad /\ p.requests # Bad
    BY DEF Accepted, Numeric
  <1>3. p.rounds \in 1 .. MaxU32 /\ p.sweep_min \in 1 .. MaxU32 /\ p.requests \in 1 .. MaxU32
    BY <1>1, <1>2, GivenIs, DefaultsAssumption
  <1>4. p.sweep_max \in 1 .. MaxU32
    BY <1>1, <1>2, <1>3, GivenIs
  <1>5. p.req_per_blocks \in Nat
    BY ParsedSizes DEF WellFormed
  <1> QED
    BY <1>3, <1>4, <1>5

Before == {"args", "sizes", "store", "csv"}
InSweep == {"create", "gate", "join", "cleanup"}

\* The counters of main's two loops.
LoopInv ==
  /\ main \in Before \cup InSweep \cup {"sweeps", "returned", "exit"}
  /\ main \notin {"args", "exit"} =>
       /\ {cfg.rounds, cfg.sweep_min, cfg.sweep_max} \subseteq 1 .. MaxU32
       /\ cfg.req_per_blocks \in Nat
  /\ main \in Before => round = 1 /\ c = 1 /\ rows = <<>>
  /\ main \in InSweep \cup {"sweeps", "returned"} =>
       /\ c \in 1 .. cfg.sweep_max /\ IsPower(c)
       /\ round \in 0 .. MaxU32 /\ (round > cfg.rounds => c = 1)
       /\ cfg.rounds < MaxU32 => round \in 1 .. cfg.rounds + 1
       /\ main # "sweeps" => round <= cfg.rounds /\ c >= cfg.sweep_min

\* An advance: c doubles, or the round is through.
LEMMA Advances ==
  ASSUME {cfg.rounds, cfg.sweep_min, cfg.sweep_max} \subseteq 1 .. MaxU32,
         c \in 1 .. cfg.sweep_max, Advance
  PROVE  \/ c' = 2 * c /\ c' <= cfg.sweep_max /\ UNCHANGED <<round, rows>>
         \/ /\ c' = 1 /\ 2 * c > cfg.sweep_max
            /\ round' = U32(round + 1) /\ rows' = IF round' = 0 THEN <<>> ELSE rows
  <1>1. MaxU32 \in Nat /\ MaxU32 + 1 \in Nat \ {0} /\ c \in 1 .. MaxU32
        /\ cfg.sweep_max \in 1 .. MaxU32
    BY WidthAssumption
  <1> DEFINE h == MaxU32 \div 2
  <1>2. h \in Int /\ MaxU32 \in {2 * h, 2 * h + 1}
    <2>1. MaxU32 = 2 * h + (MaxU32 % 2) /\ h \in Int /\ MaxU32 % 2 \in 0 .. 1
      <3>1. 2 \in Nat \ {0} /\ MaxU32 \in Int /\ 2 - 1 = 1
        BY <1>1
      <3> QED
        BY <3>1, DivModIs
    <2> HIDE DEF h
    <2>2. PICK r \in 0 .. 1 : MaxU32 = 2 * h + r
      BY <2>1
    <2>3. r = 0 \/ r = 1
      OBVIOUS
    <2> QED
      BY <1>1, <2>1, <2>2, <2>3
  <1> HIDE DEF h
  <1>3. CASE c > h
    <2>1. Doubled(c) = MaxU32 + 1 /\ 2 * c > MaxU32
      BY <1>1, <1>2, <1>3 DEF Doubled, h
    <2>2. ~ (Doubled(c) <= cfg.sweep_max) /\ 2 * c > cfg.sweep_max
      BY <1>1, <2>1
    <2> QED
      BY <2>2 DEF Advance
  <1>4. CASE c <= h
    <2>1. Doubled(c) = U32(2 * c) /\ 2 * c \in 0 .. MaxU32
      BY <1>1, <1>2, <1>4 DEF Doubled, h
    <2>2. U32(2 * c) = 2 * c
      <3> DEFINE n == MaxU32 + 1
                 x == 2 * c
      <3>1. n \in Nat \ {0} /\ x \in Int /\ x \in 0 .. n - 1 /\ x = n * 0 + x
        BY <1>1, <2>1
      <3> HIDE DEF n, x
      <3>2. x % n = x
        BY <3>1, RemainderOf
      <3> QED
        BY <3>2 DEF U32, n, x
    <2>3. Doubled(c) = 2 * c
      BY <2>1, <2>2
    <2>4. 2 * c > cfg.sweep_max \/ 2 * c <= cfg.sweep_max
      BY <1>1, <2>1
    <2> QED
      BY <1>1, <2>1, <2>3, <2>4 DEF Advance
  <1> QED
    BY <1>1, <1>2, <1>3, <1>4

\* The round after the last 32-bit one is 0.
LEMMA RoundWraps ==
  ASSUME round \in 0 .. MaxU32
  PROVE  /\ U32(round + 1) \in 0 .. MaxU32
         /\ round < MaxU32 => U32(round + 1) = round + 1
  <1> DEFINE n == MaxU32 + 1
             x == round + 1
  <1>1. n \in Nat \ {0} /\ x \in Int /\ MaxU32 = n - 1 /\ MaxU32 \in Nat
    BY WidthAssumption
  <1>2. round < MaxU32 => x \in 0 .. n - 1 /\ x = n * 0 + x
    BY <1>1
  <1> HIDE DEF n, x
  <1>3. x % n \in 0 .. n - 1
    BY <1>1, DivModIs
  <1>4. x \in 0 .. n - 1 /\ x = n * 0 + x => x % n = x
    BY <1>1, RemainderOf
  <1>5. U32(x) = x % n
    BY DEF U32, n
  <1>6. U32(x) \in 0 .. MaxU32 /\ (round < MaxU32 => U32(x) = x)
    BY <1>1, <1>2, <1>3, <1>4, <1>5
  <1> QED
    BY <1>6 DEF x

\* With fewer rounds than a 32-bit number can be, none is 0.
LEMMA AdvancesInRange ==
  ASSUME {cfg.rounds, cfg.sweep_min, cfg.sweep_max} \subseteq 1 .. MaxU32,
         c \in 1 .. cfg.sweep_max, round \in 1 .. cfg.rounds, cfg.rounds < MaxU32, Advance
  PROVE  /\ \/ c' = 2 * c /\ c' <= cfg.sweep_max /\ round' = round
            \/ c' = 1 /\ 2 * c > cfg.sweep_max /\ round' = round + 1
         /\ rows' = rows
  <1>1. round \in 0 .. MaxU32 /\ round < MaxU32 /\ round + 1 # 0
    BY WidthAssumption
  <1>2. U32(round + 1) = round + 1
    BY <1>1, RoundWraps
  <1> QED
    BY <1>1, <1>2, Advances

USE DEF sizes, files, loops, gate, sweep, Before, InSweep

LEMMA LoopStep == command \in CommandLines /\ LoopInv /\ [Next]_vars => LoopInv'
  <1> SUFFICES ASSUME command \in CommandLines, LoopInv, [Next]_vars
               PROVE  LoopInv'
    OBVIOUS
  <1> USE DEF LoopInv
  <1>1. CASE ParseArgs
    <2>1. CASE Accepted(Parsed(command))
      <3>1. main' = "sizes" /\ cfg' = Parsed(command) /\ UNCHANGED <<round, c, rows>>
        BY <1>1, <2>1 DEF ParseArgs
      <3>2. /\ {cfg'.rounds, cfg'.sweep_min, cfg'.sweep_max} \subseteq 1 .. MaxU32
            /\ cfg'.req_per_blocks \in Nat
        BY <2>1, <3>1, ParsedLoops
      <3> QED
        BY <1>1, <3>1, <3>2 DEF ParseArgs
    <2>2. CASE ~Accepted(Parsed(command))
      BY <1>1, <2>2 DEF ParseArgs, Exit
    <2> QED
      BY <2>1, <2>2
  <1>2. CASE SizeStore \/ AllocStore
    <2>1. main' \in {"store", "csv", "exit"} /\ main \in {"sizes", "store"}
          /\ UNCHANGED <<cfg, round, c, rows>>
      BY <1>2 DEF SizeStore, AllocStore, Exit
    <2> QED
      BY <2>1
  <1>3. CASE OpenCsv
    <2>1. main' \in {"sweeps", "exit"} /\ main = "csv" /\ UNCHANGED <<cfg, round, c, rows>>
      BY <1>3 DEF OpenCsv, Exit
    <2>2. IsPower(1)
      BY FirstPower DEF IsPower
    <2>3. 1 \in 1 .. cfg.sweep_max /\ 1 \in 1 .. cfg.rounds + 1 /\ ~ (1 > cfg.rounds)
          /\ 1 \in 0 .. MaxU32
      BY <2>1, WidthAssumption
    <2> QED
      BY <2>1, <2>2, <2>3
  <1>4. CASE SkipSweep \/ SweepSucceeded
    <2>1. /\ main' = "sweeps" /\ main \in {"sweeps", "returned"} /\ Advance
          /\ cfg' = cfg /\ round <= cfg.rounds
      BY <1>4 DEF SkipSweep, SweepSucceeded
    <2>2. /\ c \in 1 .. cfg.sweep_max /\ round \in 0 .. MaxU32 /\ IsPower(c)
          /\ cfg.rounds < MaxU32 => round \in 1 .. cfg.rounds
          /\ {cfg.rounds, cfg.sweep_min, cfg.sweep_max} \subseteq 1 .. MaxU32
          /\ {cfg.rounds, cfg.sweep_min, cfg.sweep_max} \subseteq Nat
      BY <2>1, WidthAssumption
    <2>3. CASE c' = 2 * c /\ c' <= cfg.sweep_max /\ round' = round
      <3>1. IsPower(c')
        <4>1. PICK k \in Nat : c = 2 ^ k
          BY <2>2 DEF IsPower
        <4>2. c' = 2 ^ (k + 1) /\ k + 1 \in Nat
          BY <2>3, <4>1, NextPower
        <4> QED
          BY <4>2 DEF IsPower
      <3>2. c' \in 1 .. cfg.sweep_max
        BY <2>2, <2>3
      <3>3. /\ round' \in 0 .. MaxU32 /\ ~ (round' > cfg.rounds)
            /\ cfg.rounds < MaxU32 => round' \in 1 .. cfg.rounds + 1
        BY <2>1, <2>2, <2>3
      <3> QED
        BY <2>1, <2>2, <3>1, <3>2, <3>3
    <2>4. CASE c' = 1 /\ 2 * c > cfg.sweep_max /\ round' = U32(round + 1)
      <3>1. IsPower(1)
        BY FirstPower DEF IsPower
      <3>2. 1 \in 1 .. cfg.sweep_max /\ round' \in 0 .. MaxU32
        BY <2>2, <2>4, RoundWraps
      <3>3. cfg.rounds < MaxU32 => round' \in 1 .. cfg.rounds + 1
        <4> SUFFICES ASSUME cfg.rounds < MaxU32
                     PROVE  round' \in 1 .. cfg.rounds + 1
          OBVIOUS
        <4>1. round \in 1 .. cfg.rounds /\ round < MaxU32 /\ MaxU32 \in Nat
          BY <2>2, WidthAssumption
        <4>2. round' = round + 1
          BY <2>2, <2>4, <4>1, RoundWraps
        <4> QED
          BY <2>2, <4>1, <4>2
      <3> QED
        BY <2>1, <2>2, <2>4, <3>1, <3>2, <3>3
    <2> QED
      BY <2>1, <2>2, <2>3, <2>4, Advances
  <1>5. CASE AllSweepsDone \/ SweepFailed
    BY <1>5 DEF AllSweepsDone, SweepFailed, Exit
  <1>6. CASE BeginSweep
    BY <1>6 DEF BeginSweep
  <1>7. CASE CreateReader \/ CreateFails \/ AllCreated \/ OpenGate \/ JoinAndReport \/ Cleanup
    <2>1. main \in InSweep /\ main' \in InSweep \cup {"returned"} /\ UNCHANGED <<cfg, round, c>>
      BY <1>7 DEF CreateReader, CreateFails, AllCreated, OpenGate, JoinAndReport, Cleanup
    <2> QED
      BY <2>1
  <1>8. CASE UNCHANGED <<main, cfg, round, c, rows>>
    BY <1>8
  <1>9. ASSUME NEW i \in Thread, ReaderStep(i)
        PROVE  LoopInv'
    BY <1>8, <1>9 DEF ReaderStep, Arrive, PassGate, ReadBlocks
  <1>10. CASE Exited \/ UNCHANGED vars
    BY <1>8, <1>10 DEF Exited, vars
  <1> QED
    BY <1>1, <1>2, <1>3, <1>4, <1>5, <1>6, <1>7, <1>9, <1>10 DEF Next, MainStep

\* The readers of a sweep and what they use.
ReaderInv ==
  /\ created \in Nat /\ ret \in {0, -1}
  /\ reader \in [Thread -> {"none", "start", "gate", "read", "exit"}]
  /\ scratch \in [Thread -> {"null", "held", "freed"}]
  /\ main \notin InSweep =>
       ~argsHeld /\ \A i \in Thread : reader[i] \in {"none", "exit"} /\ scratch[i] # "held"
  /\ main \in InSweep =>
       argsHeld /\ \A i \in Thread : scratch[i] # "freed" /\ (i >= c => scratch[i] = "null")
  /\ main \in {"create", "gate", "join"} \/ (main = "cleanup" /\ ret = -1) =>
       /\ created <= c
       /\ \A i \in Thread : i >= created => reader[i] = "none"
       /\ \A i \in Thread : i < created => (cfg.copy_to_dst => scratch[i] = "held")
  /\ main = "create" => ret = 0
  /\ main = "gate" /\ ret = 0 => created = c
  /\ main = "join" => ret = 0 /\ created = c
  /\ main = "cleanup" /\ ret = 0 => \A i \in Thread : reader[i] \in {"none", "exit"}

LEMMA ReaderInvStep == LoopInv /\ ReaderInv /\ [Next]_vars => ReaderInv'
  <1> SUFFICES ASSUME LoopInv, ReaderInv, [Next]_vars
               PROVE  ReaderInv'
    OBVIOUS
  <1> USE DEF ReaderInv
  <1>1. CASE \/ ParseArgs \/ SizeStore \/ AllocStore \/ OpenCsv
             \/ SkipSweep \/ AllSweepsDone \/ SweepFailed \/ SweepSucceeded
    <2>1. main \notin InSweep /\ main' \notin InSweep
          /\ UNCHANGED <<created, ret, reader, scratch, argsHeld>>
      BY <1>1 DEF ParseArgs, SizeStore, AllocStore, OpenCsv, SkipSweep, AllSweepsDone, SweepFailed,
         SweepSucceeded, Exit
    <2> QED
      BY <2>1
  <1>2. CASE BeginSweep
    <2>1. CASE main' = "returned"
      <3>1. main = "sweeps" /\ UNCHANGED <<created, reader, scratch, argsHeld>> /\ ret' = -1
        BY <1>2, <2>1 DEF BeginSweep
      <3> QED
        BY <2>1, <3>1
    <2>2. CASE main' = "create"
      <3>1. /\ argsHeld' = TRUE /\ created' = 0 /\ ret' = 0 /\ c' = c
            /\ reader' = [i \in Thread |-> "none"] /\ scratch' = [i \in Thread |-> "null"]
        BY <1>2, <2>2 DEF BeginSweep
      <3>2. c \in Nat
        BY <1>2, WidthAssumption DEF LoopInv, BeginSweep
      <3> QED
        BY <2>2, <3>1, <3>2 DEF Thread
    <2> QED
      BY <1>2, <2>1, <2>2 DEF BeginSweep
  <1>3. CASE CreateReader
    <2>1. /\ main = "create" /\ created < c /\ created \in Thread /\ c \in Nat
      <3>1. main = "create" /\ created < c
        BY <1>3 DEF CreateReader
      <3>2. created \in Nat /\ c \in 1 .. cfg.sweep_max /\ cfg.sweep_max \in 1 .. MaxU32
        BY <3>1 DEF LoopInv
      <3> QED
        BY <3>1, <3>2, WidthAssumption DEF Thread
    <2>2. /\ reader' = [reader EXCEPT ![created] = "start"] /\ created' = created + 1
          /\ scratch' = [scratch EXCEPT ![created] = IF cfg.copy_to_dst THEN "held" ELSE "null"]
          /\ UNCHANGED <<main, cfg, c, argsHeld, ret>>
      BY <1>3 DEF CreateReader
    <2>3. \A i \in Thread : i >= created + 1 => reader'[i] = "none"
      BY <2>1, <2>2 DEF Thread
    <2>4. \A i \in Thread : i < created + 1 => (cfg.copy_to_dst => scratch'[i] = "held")
      BY <2>1, <2>2 DEF Thread
    <2>5. \A i \in Thread : scratch'[i] # "freed" /\ (i >= c => scratch'[i] = "null")
      BY <2>1, <2>2 DEF Thread
    <2>6. /\ reader' \in [Thread -> {"none", "start", "gate", "read", "exit"}]
          /\ scratch' \in [Thread -> {"null", "held", "freed"}]
      BY <2>2
    <2> QED
      BY <2>1, <2>2, <2>3, <2>4, <2>5, <2>6
  <1>4. CASE CreateFails
    <2>1. /\ main = "create" /\ created < c /\ created \in Thread /\ c \in Nat
      <3>1. main = "create" /\ created < c
        BY <1>4 DEF CreateFails
      <3>2. created \in Nat /\ c \in 1 .. cfg.sweep_max /\ cfg.sweep_max \in 1 .. MaxU32
        BY <3>1 DEF LoopInv
      <3> QED
        BY <3>1, <3>2, WidthAssumption DEF Thread
    <2>2. \/ UNCHANGED scratch
          \/ scratch' = [scratch EXCEPT ![created] = IF cfg.copy_to_dst THEN "held" ELSE "null"]
      BY <1>4 DEF CreateFails
    <2>3. ret' = -1 /\ main' = "gate" /\ UNCHANGED <<cfg, c, argsHeld, reader, created>>
      BY <1>4 DEF CreateFails
    <2>4. /\ \A i \in Thread : scratch'[i] # "freed" /\ (i >= c => scratch'[i] = "null")
          /\ \A i \in Thread : i < created => scratch'[i] = scratch[i]
      <3>1. CASE UNCHANGED scratch
        BY <2>1, <3>1
      <3>2. CASE scratch' = [scratch EXCEPT ![created] = IF cfg.copy_to_dst THEN "held" ELSE "null"]
        <4>1. \A i \in Thread : i # created => scratch'[i] = scratch[i]
          BY <2>1, <3>2
        <4>2. scratch'[created] \in {"held", "null"} /\ ~ (created >= c)
          BY <2>1, <3>2 DEF Thread
        <4> QED
          BY <2>1, <4>1, <4>2 DEF Thread
      <3> QED
        BY <2>2, <3>1, <3>2
    <2>5. scratch' \in [Thread -> {"null", "held", "freed"}]
      BY <2>2
    <2> QED
      BY <2>1, <2>3, <2>4, <2>5
  <1>5. CASE AllCreated
    BY <1>5 DEF AllCreated
  <1>6. CASE OpenGate
    BY <1>6 DEF OpenGate
  <1>7. CASE JoinAndReport
    <2>1. /\ main = "join" /\ main' = "cleanup" /\ created' = 0
          /\ \A i \in 0 .. c - 1 : reader[i] = "exit"
          /\ UNCHANGED <<cfg, c, argsHeld, reader, scratch, ret>>
      BY <1>7 DEF JoinAndReport
    <2>2. c \in Nat
      BY <2>1, WidthAssumption DEF LoopInv
    <2>3. \A i \in Thread : reader[i] \in {"none", "exit"}
      <3> SUFFICES ASSUME NEW i \in Thread
                   PROVE  reader[i] \in {"none", "exit"}
        OBVIOUS
      <3>1. i \in 0 .. c - 1 \/ i >= c
        BY <2>2 DEF Thread
      <3> QED
        BY <2>1, <3>1
    <2> QED
      BY <2>1, <2>3
  <1>8. CASE Cleanup
    <2>1. /\ main = "cleanup" /\ main' = "returned" /\ argsHeld' = FALSE
          /\ \A i \in 0 .. created - 1 : reader[i] = "exit"
          /\ UNCHANGED <<cfg, c, reader, created, ret>>
          /\ scratch' = [i \in Thread |-> IF i < c THEN FreedOnce(scratch[i]) ELSE scratch[i]]
      BY <1>8 DEF Cleanup
    <2>2. \A i \in Thread : scratch'[i] \in {"null", "freed"}
      <3> SUFFICES ASSUME NEW i \in Thread
                   PROVE  scratch'[i] \in {"null", "freed"}
        OBVIOUS
      <3>1. scratch[i] \in {"null", "held"} /\ (i < c \/ i >= c)
        <4>1. c \in Nat
          BY <2>1, WidthAssumption DEF LoopInv
        <4> QED
          BY <2>1, <4>1 DEF Thread
      <3>2. FreedOnce("null") = "null" /\ FreedOnce("held") = "freed"
        BY DEF FreedOnce
      <3> QED
        BY <2>1, <3>1, <3>2
    <2>3. \A i \in Thread : reader[i] \in {"none", "exit"}
      <3>1. CASE ret = 0
        BY <2>1, <3>1
      <3>2. CASE ret = -1
        <4>1. \A i \in Thread : i \in 0 .. created - 1 \/ i >= created
          BY DEF Thread
        <4> QED
          BY <2>1, <3>2, <4>1
      <3> QED
        BY <3>1, <3>2
    <2>4. scratch' \in [Thread -> {"null", "held", "freed"}]
      BY <2>1, <2>2
    <2> QED
      BY <2>1, <2>2, <2>3, <2>4
  <1>9. ASSUME NEW i \in Thread, ReaderStep(i)
        PROVE  ReaderInv'
    <2>1. reader[i] \in {"start", "gate", "read"}
      BY <1>9 DEF ReaderStep, Arrive, PassGate, ReadBlocks
    <2>2. PICK s \in {"gate", "read", "exit"} : reader' = [reader EXCEPT ![i] = s]
      BY <1>9 DEF ReaderStep, Arrive, PassGate, ReadBlocks
    <2>3. UNCHANGED <<main, cfg, c, scratch, argsHeld, created, ret>>
      BY <1>9 DEF ReaderStep, Arrive, PassGate, ReadBlocks
    <2>4. main \in InSweep /\ ~ (main = "cleanup" /\ ret = 0)
      BY <2>1
    <2>5. \A j \in Thread : reader[j] = "none" => reader'[j] = "none"
      BY <2>1, <2>2
    <2>6. reader' \in [Thread -> {"none", "start", "gate", "read", "exit"}]
      BY <2>2
    <2> QED
      BY <2>3, <2>4, <2>5, <2>6
  <1>10. CASE Exited \/ UNCHANGED vars
    <2>1. UNCHANGED <<main, cfg, c, reader, scratch, argsHeld, created, ret>>
      BY <1>10 DEF Exited, vars
    <2> QED
      BY <2>1
  <1> QED
    BY <1>1, <1>2, <1>3, <1>4, <1>5, <1>6, <1>7, <1>8, <1>9, <1>10 DEF Next, MainStep

\* The store is there from its filling to the exit; the csv file is closed at the exit.
KeptInv ==
  /\ main \in InSweep \cup {"csv", "sweeps", "returned"} => store = Populated(cfg)
  /\ main \in Before => ~csvOpen
  /\ main = "exit" => store = <<>> /\ ~csvOpen

LEMMA KeptStep == PlaceInv /\ LoopInv /\ KeptInv /\ [Next]_vars => KeptInv'
  <1> SUFFICES ASSUME PlaceInv, LoopInv, KeptInv, [Next]_vars
               PROVE  KeptInv'
    OBVIOUS
  <1> USE DEF KeptInv
  <1>1. CASE ParseArgs \/ SizeStore
    <2>1. /\ main \in {"args", "sizes"} /\ main' \in {"sizes", "store", "exit"}
          /\ UNCHANGED <<store, csvOpen>>
      BY <1>1 DEF ParseArgs, SizeStore, Exit
    <2>2. store = <<>>
      BY <2>1 DEF PlaceInv, StoreInv
    <2> QED
      BY <2>1, <2>2
  <1>2. CASE AllocStore
    <2>1. store = <<>> /\ main = "store"
      BY <1>2 DEF AllocStore, PlaceInv, StoreInv
    <2> QED
      BY <1>2, <2>1 DEF AllocStore, Exit
  <1>3. CASE OpenCsv \/ AllSweepsDone \/ SweepFailed
    BY <1>3 DEF OpenCsv, AllSweepsDone, SweepFailed, Exit
  <1>4. CASE SkipSweep \/ SweepSucceeded \/ BeginSweep \/ CreateReader \/ CreateFails
             \/ AllCreated \/ OpenGate \/ JoinAndReport \/ Cleanup
    <2>1. /\ main \in InSweep \cup {"sweeps", "returned"}
          /\ main' \in InSweep \cup {"sweeps", "returned"}
          /\ UNCHANGED <<cfg, store, csvOpen>>
      BY <1>4 DEF SkipSweep, SweepSucceeded, BeginSweep, CreateReader, CreateFails,
         AllCreated, OpenGate, JoinAndReport, Cleanup
    <2> QED
      BY <2>1
  <1>5. CASE UNCHANGED <<main, cfg, store, csvOpen>>
    BY <1>5
  <1>6. ASSUME NEW i \in Thread, ReaderStep(i)
        PROVE  KeptInv'
    BY <1>5, <1>6 DEF ReaderStep, Arrive, PassGate, ReadBlocks
  <1>7. CASE Exited \/ UNCHANGED vars
    BY <1>5, <1>7 DEF Exited, vars
  <1> QED
    BY <1>1, <1>2, <1>3, <1>4, <1>6, <1>7 DEF Next, MainStep

SweepInv == PlaceInv /\ LoopInv /\ ReaderInv /\ KeptInv

LEMMA InitSweep == Init => SweepInv
  <1> SUFFICES ASSUME Init
               PROVE  SweepInv
    OBVIOUS
  <1>1. PlaceInv
    BY InitPlace
  <1>2. LoopInv /\ KeptInv
    BY DEF Init, LoopInv, KeptInv
  <1>3. ReaderInv
    BY DEF Init, ReaderInv
  <1> QED
    BY <1>1, <1>2, <1>3 DEF SweepInv

LEMMA AlwaysSweep == Spec => []SweepInv
  <1>1. command \in CommandLines /\ SweepInv /\ [Next]_vars => SweepInv'
    BY StepPlace, LoopStep, ReaderInvStep, KeptStep DEF SweepInv
  <1> QED
    BY InitSweep, <1>1, CommandKept, PTL DEF Spec

\* Whatever the configuration, and whichever allocation, file or thread cannot be had:
\* no reader runs without the store and its buffer, every buffer is freed once, and
\* nothing is held at the exit.
THEOREM SweepsAlwaysCleanUp == Spec => []SweepsCleanUp
  <1>1. SweepInv => SweepsCleanUp
    <2> SUFFICES ASSUME SweepInv
                 PROVE  SweepsCleanUp
      OBVIOUS
    <2> USE DEF SweepInv, ReaderInv
    <2>1. ASSUME NEW i \in Thread, reader[i] \in {"start", "gate", "read"}
          PROVE  store # <<>> /\ argsHeld /\ (cfg.copy_to_dst => scratch[i] = "held")
      <3>1. main \in InSweep /\ ~ (main = "cleanup" /\ ret = 0) /\ argsHeld
        BY <2>1
      <3>2. i < created
        <4>1. main \in {"create", "gate", "join"} \/ (main = "cleanup" /\ ret = -1)
          BY <3>1
        <4> QED
          BY <2>1, <4>1 DEF Thread
      <3>3. store # <<>>
        <4>1. WellFormed(cfg) /\ store = Populated(cfg)
          BY <3>1 DEF KeptInv, PlaceInv, SizeInv, Checked
        <4>2. Len(store) = cfg.req_per_blocks * Width(cfg)
          BY <4>1, PlaceHolds
        <4>3. cfg.req_per_blocks \in Nat \ {0} /\ Width(cfg) \in Nat \ {0}
          BY <4>1, ChunksOf DEF WellFormed
        <4>4. PICK a \in Nat \ {0}, b \in Nat \ {0} : a = cfg.req_per_blocks /\ b = Width(cfg)
          BY <4>3
        <4>5. a * b # 0
          OBVIOUS
        <4>6. Len(<<>>) = 0
          OBVIOUS
        <4> QED
          BY <4>2, <4>4, <4>5, <4>6
      <3> QED
        BY <3>1, <3>2, <3>3
    <2>2. \A i \in Thread : scratch[i] # "twice"
      OBVIOUS
    <2>3. main \in {"sweeps", "exit"} => ~argsHeld /\ \A i \in Thread : scratch[i] # "held"
      OBVIOUS
    <2>4. main = "exit" => store = <<>> /\ ~csvOpen
      BY DEF KeptInv
    <2> QED
      BY <2>1, <2>2, <2>3, <2>4 DEF SweepsCleanUp
  <1> QED
    BY AlwaysSweep, <1>1, PTL

-----------------------------------------------------------------------------
(* The rows *)

LEMMA RangeIsFinite ==
  ASSUME {cfg.sweep_min, cfg.sweep_max} \subseteq 1 .. MaxU32
  PROVE  IsFiniteSet(PowersInRange) /\ PowersInRange \subseteq 1 .. MaxU32
  <1>1. MaxU32 \in Nat \ {0}
    BY WidthAssumption
  <1>2. IsFiniteSet(1 .. MaxU32)
    BY <1>1, BelowIsFinite
  <1>3. PowersInRange \subseteq 1 .. MaxU32
    BY <1>1 DEF PowersInRange
  <1> QED
    BY <1>2, <1>3, FS_Subset

\* A power that main reaches is in the range unless it is skipped.
LEMMA ReachedPower ==
  ASSUME {cfg.sweep_min, cfg.sweep_max} \subseteq 1 .. MaxU32,
         c \in 1 .. cfg.sweep_max, IsPower(c)
  PROVE  c \in PowersInRange <=> c >= cfg.sweep_min
  <1>1. PICK k \in Nat : c = 2 ^ k
    BY DEF IsPower
  <1>2. k < 2 ^ k
    <2>1. 0 \in Nat
      OBVIOUS
    <2> QED
      BY <2>1, PowersGrow
  <1>3. MaxU32 \in Nat /\ c \in Nat /\ c <= MaxU32 /\ {cfg.sweep_min, cfg.sweep_max} \subseteq Nat
    BY WidthAssumption
  <1>4. k \in 0 .. MaxU32
    BY <1>1, <1>2, <1>3
  <1> QED
    BY <1>1, <1>3, <1>4 DEF PowersInRange

\* The powers of the range that come before main's x in a round.
Below(x) == {n \in PowersInRange : n < x}

\* From c the loop goes to the next power.
LEMMA BelowGrows ==
  ASSUME {cfg.sweep_min, cfg.sweep_max} \subseteq 1 .. MaxU32,
         c \in 1 .. cfg.sweep_max, IsPower(c),
         NEW x, x \in {2 * c} \/ (2 * c > cfg.sweep_max /\ x \in {cfg.sweep_max + 1})
  PROVE  /\ Below(x) = IF c >= cfg.sweep_min THEN Below(c) \cup {c} ELSE Below(c)
         /\ Cardinality(Below(x)) = Cardinality(Below(c)) + (IF c >= cfg.sweep_min THEN 1 ELSE 0)
  <1>1. MaxU32 \in Nat /\ c \in Nat \ {0} /\ {cfg.sweep_min, cfg.sweep_max} \subseteq Nat
    BY WidthAssumption
  <1>2. x \in Nat /\ c < x
    BY <1>1
  <1>3. ASSUME NEW n \in PowersInRange
        PROVE  n < x <=> (n < c \/ n = c)
    <2>1. n \in Nat /\ n <= cfg.sweep_max /\ IsPower(n)
      BY <1>1 DEF PowersInRange, IsPower
    <2>2. CASE n <= c
      BY <1>1, <1>2, <2>1, <2>2
    <2>3. CASE n > c
      <3>1. 2 * c <= n
        BY <1>1, <2>1, <2>3, PowersApart
      <3>2. x <= n
        BY <1>1, <2>1, <3>1
      <3> QED
        BY <1>1, <1>2, <2>1, <2>3, <3>2
    <2> QED
      BY <1>1, <2>1, <2>2, <2>3
  <1>4. c \in PowersInRange <=> c >= cfg.sweep_min
    BY ReachedPower
  <1>5. Below(x) = IF c >= cfg.sweep_min THEN Below(c) \cup {c} ELSE Below(c)
    BY <1>3, <1>4 DEF Below
  <1>6. IsFiniteSet(Below(c))
    <2>1. IsFiniteSet(PowersInRange) /\ Below(c) \subseteq PowersInRange
      BY RangeIsFinite DEF Below
    <2> QED
      BY <2>1, FS_Subset
  <1>7. c \notin Below(c) /\ Cardinality(Below(c)) \in Nat
    BY <1>1, <1>6, FS_CardinalityType DEF Below
  <1>8. CASE c >= cfg.sweep_min
    <2>1. Cardinality(Below(c) \cup {c}) = Cardinality(Below(c)) + 1
      BY <1>6, <1>7, FS_AddElement
    <2> QED
      BY <1>5, <1>8, <2>1
  <1>9. CASE ~ (c >= cfg.sweep_min)
    BY <1>5, <1>7, <1>9
  <1> QED
    BY <1>5, <1>8, <1>9

LEMMA BelowEnds ==
  ASSUME {cfg.sweep_min, cfg.sweep_max} \subseteq 1 .. MaxU32
  PROVE  Below(1) = {} /\ Cardinality(Below(1)) = 0 /\ Below(cfg.sweep_max + 1) = PowersInRange
  <1>1. Below(1) = {}
    BY WidthAssumption DEF Below, PowersInRange
  <1>2. Below(cfg.sweep_max + 1) = PowersInRange
    BY WidthAssumption DEF Below, PowersInRange
  <1> QED
    BY <1>1, <1>2, FS_EmptySet

DoneReaders == {i \in Thread : reader[i] = "exit"}
BlocksOf(n) == n * cfg.req_per_blocks

\* While a sweep runs blocks_read has what the finished readers read.
CountInv ==
  main \in {"create", "gate", "join"} => blocks_read = BlocksOf(Cardinality(DoneReaders))

LEMMA DoneIsFinite == IsFiniteSet(DoneReaders) /\ Cardinality(DoneReaders) \in Nat
  <1>1. MaxU32 \in Nat \ {0}
    BY WidthAssumption
  <1>2. IsFiniteSet(Thread)
    BY <1>1, FS_Interval DEF Thread
  <1> QED
    BY <1>2, FS_Subset, FS_CardinalityType DEF DoneReaders

LEMMA CountStep == LoopInv /\ ReaderInv /\ CountInv /\ [Next]_vars => CountInv'
  <1> SUFFICES ASSUME LoopInv, ReaderInv, CountInv, [Next]_vars
               PROVE  CountInv'
    OBVIOUS
  <1>1. CASE main' \notin {"create", "gate", "join"}
    BY <1>1 DEF CountInv
  <1>2. CASE BeginSweep
    <2>1. CASE main' = "create"
      <3>1. blocks_read' = 0 /\ DoneReaders' = {} /\ cfg' = cfg
        BY <1>2, <2>1 DEF BeginSweep, DoneReaders
      <3>2. Cardinality(DoneReaders') = 0 /\ cfg.req_per_blocks \in Nat
        BY <1>2, <3>1, FS_EmptySet DEF BeginSweep, LoopInv
      <3>3. BlocksOf(0)' = 0
        BY <3>1, <3>2 DEF BlocksOf
      <3> QED
        BY <3>1, <3>2, <3>3 DEF CountInv, BlocksOf
    <2> QED
      BY <1>2, <2>1, <1>1 DEF BeginSweep
  <1>3. CASE CreateReader
    <2>1. reader[created] = "none" /\ reader \in [Thread -> {"none", "start", "gate", "read", "exit"}]
          /\ created \in Thread
      <3>1. main = "create" /\ created < c /\ created \in Nat /\ ReaderInv
        BY <1>3 DEF CreateReader, ReaderInv
      <3>2. c \in Nat /\ c <= MaxU32 /\ MaxU32 \in Nat
        BY <3>1, WidthAssumption DEF LoopInv
      <3>3. created \in Thread /\ created >= created
        BY <3>1, <3>2 DEF Thread
      <3> QED
        BY <3>1, <3>3 DEF ReaderInv
    <2>2. reader' = [reader EXCEPT ![created] = "start"] /\ UNCHANGED <<cfg, blocks_read>>
      BY <1>3 DEF CreateReader
    <2>3. DoneReaders' = DoneReaders
      BY <2>1, <2>2 DEF DoneReaders
    <2> QED
      BY <1>3, <2>2, <2>3 DEF CountInv, BlocksOf, CreateReader
  <1>4. CASE CreateFails \/ AllCreated \/ OpenGate
    <2>1. main \in {"create", "gate"} /\ UNCHANGED <<reader, cfg, blocks_read>>
      BY <1>4 DEF CreateFails, AllCreated, OpenGate
    <2> QED
      BY <2>1 DEF CountInv, BlocksOf, DoneReaders
  <1>5. ASSUME NEW i \in Thread, Arrive(i) \/ PassGate(i)
        PROVE  CountInv'
    <2>1. /\ reader[i] # "exit" /\ UNCHANGED <<main, cfg, blocks_read>>
          /\ \E s \in {"gate", "read"} : reader' = [reader EXCEPT ![i] = s]
      BY <1>5 DEF Arrive, PassGate
    <2>2. reader \in [Thread -> {"none", "start", "gate", "read", "exit"}]
      BY DEF ReaderInv
    <2>3. DoneReaders' = DoneReaders
      BY <2>1, <2>2 DEF DoneReaders
    <2> QED
      BY <2>1, <2>3 DEF CountInv, BlocksOf
  <1>6. ASSUME NEW i \in Thread, ReadBlocks(i), main' \in {"create", "gate", "join"}
        PROVE  CountInv'
    <2>1. /\ reader[i] = "read" /\ reader' = [reader EXCEPT ![i] = "exit"]
          /\ blocks_read' = blocks_read + cfg.req_per_blocks /\ main' = main /\ cfg' = cfg
      BY <1>6 DEF ReadBlocks
    <2>2. reader \in [Thread -> {"none", "start", "gate", "read", "exit"}]
      BY DEF ReaderInv
    <2>3. DoneReaders' = DoneReaders \cup {i} /\ i \notin DoneReaders
      BY <2>1, <2>2 DEF DoneReaders
    <2>4. Cardinality(DoneReaders)' = Cardinality(DoneReaders) + 1
      BY <2>3, DoneIsFinite, FS_AddElement
    <2>5. PICK n \in Nat : n = Cardinality(DoneReaders)
      BY DoneIsFinite
    <2>6. cfg.req_per_blocks \in Nat
      BY <1>6, <2>1 DEF LoopInv
    <2>7. (n + 1) * cfg.req_per_blocks = n * cfg.req_per_blocks + cfg.req_per_blocks
      BY <2>6
    <2> QED
      BY <1>6, <2>1, <2>4, <2>5, <2>7 DEF CountInv, BlocksOf
  <1>7. CASE Exited \/ UNCHANGED vars
    BY <1>7 DEF Exited, vars, CountInv, BlocksOf, DoneReaders
  <1>8. CASE \/ ParseArgs \/ SizeStore \/ AllocStore \/ OpenCsv \/ SkipSweep \/ AllSweepsDone
             \/ SweepFailed \/ SweepSucceeded \/ JoinAndReport \/ Cleanup
    <2>1. main' \notin {"create", "gate", "join"}
      BY <1>8 DEF ParseArgs, SizeStore, AllocStore, OpenCsv, SkipSweep, AllSweepsDone, SweepFailed,
         SweepSucceeded, JoinAndReport, Cleanup, Exit
    <2> QED
      BY <1>1, <2>1
  <1> QED
    BY <1>1, <1>2, <1>3, <1>4, <1>5, <1>6, <1>7, <1>8 DEF Next, MainStep, ReaderStep

\* At the joins every reader of the sweep is counted.
LEMMA JoinedCount ==
  ASSUME LoopInv, ReaderInv, CountInv, JoinAndReport
  PROVE  blocks_read = BlocksOf(c)
  <1>1. main = "join" /\ \A i \in 0 .. c - 1 : reader[i] = "exit"
    BY DEF JoinAndReport
  <1>2. c \in 1 .. MaxU32 /\ created = c /\ MaxU32 \in Nat
    BY <1>1, WidthAssumption DEF LoopInv, ReaderInv
  <1>3. DoneReaders = 0 .. c - 1
    <2>1. \A i \in Thread : i \in 0 .. c - 1 <=> ~ (i >= c)
      BY <1>2 DEF Thread
    <2>2. 0 .. c - 1 \subseteq Thread
      BY <1>2 DEF Thread
    <2>3. \A i \in Thread : i >= c => reader[i] = "none"
      BY <1>1, <1>2 DEF ReaderInv
    <2> QED
      BY <1>1, <2>1, <2>2, <2>3 DEF DoneReaders
  <1>4. Cardinality(0 .. c - 1) = c
    BY <1>2, FS_Interval
  <1> QED
    BY <1>1, <1>3, <1>4 DEF CountInv

\* The sweep that main is at has its row.
Recorded == main \in {"cleanup", "returned"} /\ ret = 0

RowIsRight(r) ==
  /\ r[1] \in 1 .. cfg.rounds /\ r[2] \in PowersInRange
  /\ r[3] = r[2] * cfg.req_per_blocks

Earlier(r, s) == r[1] < s[1] \/ (r[1] = s[1] /\ r[2] < s[2])

RoundsOf(n) == n * Cardinality(PowersInRange)

\* From the first sweep on, the rows are those of the sweeps before <<round, c>>, and at
\* last that one's own, unless round wraps.
RowsRight == rows \in Seq(Nat \X Nat \X Nat) /\ \A k \in DOMAIN rows : RowIsRight(rows[k])
RowsAscend == \A k \in 1 .. Len(rows) - 1 : Earlier(rows[k], rows[k + 1])
LastRow ==
  rows # <<>> => IF Recorded THEN rows[Len(rows)][1] = round /\ rows[Len(rows)][2] = c
                 ELSE Earlier(rows[Len(rows)], <<round, c>>)
RowCount ==
  Len(rows) = RoundsOf(round - 1) + Cardinality(Below(c)) + (IF Recorded THEN 1 ELSE 0)

RowInv ==
  main \in InSweep \cup {"sweeps", "returned"} /\ cfg.rounds < MaxU32 => RowsRight /\ RowsAscend /\ LastRow /\ RowCount

\* main has a status when it exits, and 0 only at the end of its loops.
EndInv == IF main = "exit" THEN ZeroMeansSwept ELSE status = -1

LEMMA NextRound ==
  ASSUME {cfg.sweep_min, cfg.sweep_max} \subseteq 1 .. MaxU32, NEW n \in Nat
  PROVE  RoundsOf(n + 1) = RoundsOf(n) + Cardinality(PowersInRange) /\ RoundsOf(n) \in Nat
  <1>1. Cardinality(PowersInRange) \in Nat
    BY RangeIsFinite, FS_CardinalityType
  <1>2. PICK p \in Nat : p = Cardinality(PowersInRange)
    BY <1>1
  <1>3. (n + 1) * p = n * p + p /\ n * p \in Nat
    OBVIOUS
  <1> QED
    BY <1>2, <1>3 DEF RoundsOf

LEMMA BelowIsCounted ==
  ASSUME {cfg.sweep_min, cfg.sweep_max} \subseteq 1 .. MaxU32, NEW x
  PROVE  Cardinality(Below(x)) \in Nat
  <1>1. IsFiniteSet(PowersInRange) /\ Below(x) \subseteq PowersInRange
    BY RangeIsFinite DEF Below
  <1> QED
    BY <1>1, FS_Subset, FS_CardinalityType

\* What moves neither the loops nor the rows keeps them in step.
LEMMA RowsKept ==
  ASSUME RowInv, main \in InSweep \cup {"sweeps", "returned"},
         UNCHANGED <<cfg, round, c, rows>>, Recorded' = Recorded
  PROVE  RowInv'
  BY DEF RowInv, RowsRight, RowsAscend, LastRow, RowCount, RowIsRight, Earlier, RoundsOf, Below,
     PowersInRange

LEMMA RowsAdvance ==
  ASSUME LoopInv, RowInv, SkipSweep \/ SweepSucceeded
  PROVE  RowInv'
  <1> SUFFICES ASSUME cfg.rounds < MaxU32
               PROVE  RowInv'
    BY DEF RowInv, SkipSweep, SweepSucceeded
  <1>10. /\ main \in {"sweeps", "returned"} /\ main' = "sweeps" /\ Advance
        /\ UNCHANGED cfg /\ round <= cfg.rounds
        /\ (IF c >= cfg.sweep_min THEN 1 ELSE 0) = IF Recorded THEN 1 ELSE 0
    <2>1. CASE SkipSweep
      <3>1. main = "sweeps" /\ c < cfg.sweep_min /\ c \in Nat /\ cfg.sweep_min \in Nat
        BY <2>1, WidthAssumption DEF SkipSweep, LoopInv
      <3>2. ~ (c >= cfg.sweep_min) /\ ~Recorded
        BY <3>1 DEF Recorded
      <3> QED
        BY <2>1, <3>2 DEF SkipSweep
    <2>2. CASE SweepSucceeded
      BY <2>2 DEF SweepSucceeded, LoopInv, Recorded
    <2> QED
      BY <2>1, <2>2
  <1>2. /\ {cfg.rounds, cfg.sweep_min, cfg.sweep_max} \subseteq 1 .. MaxU32
        /\ c \in 1 .. cfg.sweep_max /\ IsPower(c) /\ round \in 1 .. cfg.rounds
        /\ {c, round, cfg.sweep_min, cfg.sweep_max, cfg.rounds} \subseteq Nat \ {0}
    <2>1. {cfg.rounds, cfg.sweep_min, cfg.sweep_max} \subseteq 1 .. MaxU32
      BY <1>10 DEF LoopInv
    <2>2. MaxU32 \in Nat /\ {cfg.sweep_min, cfg.sweep_max, cfg.rounds} \subseteq Nat \ {0}
      BY <2>1, WidthAssumption
    <2>3. c \in 1 .. cfg.sweep_max /\ IsPower(c) /\ round \in 1 .. cfg.rounds + 1
      BY <1>10 DEF LoopInv
    <2>4. round \in 1 .. cfg.rounds /\ {c, round} \subseteq Nat \ {0}
      BY <1>10, <2>2, <2>3
    <2> QED
      BY <2>1, <2>2, <2>3, <2>4
  <1>11. /\ \/ c' = 2 * c /\ c' <= cfg.sweep_max /\ round' = round
            \/ c' = 1 /\ 2 * c > cfg.sweep_max /\ round' = round + 1
         /\ rows' = rows
    BY <1>2, <1>10, AdvancesInRange
  <1>1. /\ main \in {"sweeps", "returned"} /\ main' = "sweeps" /\ Advance
        /\ UNCHANGED <<cfg, rows>> /\ round <= cfg.rounds
        /\ (IF c >= cfg.sweep_min THEN 1 ELSE 0) = IF Recorded THEN 1 ELSE 0
    BY <1>10, <1>11
  <1>3. RowsRight /\ RowsAscend /\ LastRow /\ RowCount
    BY <1>1 DEF RowInv
  <1>4. ~Recorded'
    BY <1>1 DEF Recorded
  <1>5. RowsRight' /\ RowsAscend'
    BY <1>1, <1>3 DEF RowsRight, RowsAscend, Earlier, RowIsRight, PowersInRange
  <1>6. /\ RoundsOf(round - 1) \in Nat
        /\ RoundsOf((round - 1) + 1) = RoundsOf(round - 1) + Cardinality(PowersInRange)
    BY <1>2, NextRound
  <1>7. ASSUME rows # <<>>
        PROVE  \E l \in Nat \X Nat \X Nat :
                 l = rows[Len(rows)] /\ (l[1] < round \/ (l[1] = round /\ l[2] <= c))
    <2>1. PICK l \in Nat \X Nat \X Nat : l = rows[Len(rows)]
      BY <1>3, <1>7 DEF RowsRight
    <2>2. l[1] \in Nat /\ l[2] \in Nat
      BY <2>1
    <2>3. l[1] < round \/ (l[1] = round /\ l[2] <= c)
      <3>1. CASE Recorded
        BY <1>2, <1>3, <1>7, <2>1, <2>2, <3>1 DEF LastRow
      <3>2. CASE ~Recorded
        BY <1>2, <1>3, <1>7, <2>1, <2>2, <3>2 DEF LastRow, Earlier
      <3> QED
        BY <3>1, <3>2
    <2> QED
      BY <2>1, <2>3
  <1>8. CASE c' = 2 * c /\ c' <= cfg.sweep_max /\ round' = round
    <2>1. Cardinality(Below(2 * c)) = Cardinality(Below(c)) + (IF c >= cfg.sweep_min THEN 1 ELSE 0)
      BY <1>2, BelowGrows
    <2>2. Len(rows) = RoundsOf(round - 1) + Cardinality(Below(2 * c))
      BY <1>1, <1>2, <1>3, <1>6, <2>1, BelowIsCounted DEF RowCount
    <2>3. Below(c)' = Below(2 * c) /\ RoundsOf(round - 1)' = RoundsOf(round - 1)
      BY <1>1, <1>8 DEF Below, RoundsOf, PowersInRange
    <2>4. Len(rows) = (RoundsOf(round - 1) + Cardinality(Below(c)))' + 0
      BY <1>2, <1>6, <2>2, <2>3, BelowIsCounted
    <2>5. ASSUME rows # <<>>
          PROVE  Earlier(rows[Len(rows)], <<round, 2 * c>>)
      <3>1. PICK l \in Nat \X Nat \X Nat :
              l = rows[Len(rows)] /\ (l[1] < round \/ (l[1] = round /\ l[2] <= c))
        BY <1>7, <2>5
      <3>2. l[2] <= c => l[2] < 2 * c
        BY <1>2
      <3> QED
        BY <3>1, <3>2 DEF Earlier
    <2>6. LastRow'
      BY <1>1, <1>4, <1>8, <2>5 DEF LastRow, Earlier
    <2>7. RowCount'
      BY <1>1, <1>4, <2>4 DEF RowCount
    <2> QED
      BY <1>5, <2>6, <2>7 DEF RowInv
  <1>9. CASE c' = 1 /\ 2 * c > cfg.sweep_max /\ round' = round + 1
    <2>1. Cardinality(Below(cfg.sweep_max + 1))
            = Cardinality(Below(c)) + (IF c >= cfg.sweep_min THEN 1 ELSE 0)
      BY <1>2, <1>9, BelowGrows
    <2>2. Below(cfg.sweep_max + 1) = PowersInRange /\ Cardinality(Below(1)) = 0
      BY <1>2, BelowEnds
    <2>3. Len(rows) = RoundsOf(round) + Cardinality(Below(1))
      <3>1. (round - 1) + 1 = round
        BY <1>2
      <3>2. Cardinality(PowersInRange) \in Nat /\ Cardinality(Below(c)) \in Nat
        BY <1>2, <2>2, BelowIsCounted
      <3> QED
        BY <1>1, <1>3, <1>6, <2>1, <2>2, <3>1, <3>2 DEF RowCount
    <2>4. (round - 1)' = round
      BY <1>2, <1>9
    <2>5. Below(c)' = Below(1) /\ RoundsOf(round - 1)' = RoundsOf(round)
      BY <1>1, <1>9, <2>4 DEF Below, RoundsOf, PowersInRange
    <2>6. Len(rows) = (RoundsOf(round - 1) + Cardinality(Below(c)))' + 0
      BY <1>3, <2>2, <2>3, <2>5
    <2>7. ASSUME rows # <<>>
          PROVE  Earlier(rows[Len(rows)], <<round + 1, 1>>)
      <3>1. PICK l \in Nat \X Nat \X Nat :
              l = rows[Len(rows)] /\ (l[1] < round \/ (l[1] = round /\ l[2] <= c))
        BY <1>7, <2>7
      <3>2. l[1] < round + 1
        BY <1>2, <3>1
      <3> QED
        BY <3>1, <3>2 DEF Earlier
    <2>8. LastRow'
      BY <1>1, <1>4, <1>9, <2>7 DEF LastRow, Earlier
    <2>9. RowCount'
      BY <1>1, <1>4, <2>6 DEF RowCount
    <2> QED
      BY <1>5, <2>8, <2>9 DEF RowInv
  <1> QED
    BY <1>8, <1>9, <1>11

LEMMA RowsAppend ==
  ASSUME LoopInv, ReaderInv, CountInv, RowInv, JoinAndReport
  PROVE  RowInv'
  <1> SUFFICES ASSUME cfg.rounds < MaxU32
               PROVE  RowInv'
    BY DEF RowInv, JoinAndReport
  <1>1. /\ main = "join" /\ main' = "cleanup" /\ ret = 0 /\ ret' = 0
        /\ rows' = Append(rows, <<round, c, blocks_read>>) /\ UNCHANGED <<cfg, round, c>>
    BY DEF JoinAndReport, ReaderInv
  <1>2. /\ {cfg.rounds, cfg.sweep_min, cfg.sweep_max} \subseteq 1 .. MaxU32
        /\ c \in 1 .. cfg.sweep_max /\ IsPower(c) /\ round \in 1 .. cfg.rounds /\ c >= cfg.sweep_min
        /\ {c, round, cfg.req_per_blocks} \subseteq Nat
    <2>1. {cfg.rounds, cfg.sweep_min, cfg.sweep_max} \subseteq 1 .. MaxU32 /\ cfg.req_per_blocks \in Nat
      BY <1>1 DEF LoopInv
    <2>2. MaxU32 \in Nat /\ {cfg.sweep_min, cfg.sweep_max, cfg.rounds} \subseteq Nat \ {0}
      BY <2>1, WidthAssumption
    <2>3. /\ c \in 1 .. cfg.sweep_max /\ IsPower(c) /\ round \in 1 .. cfg.rounds + 1
          /\ round <= cfg.rounds /\ c >= cfg.sweep_min
      BY <1>1 DEF LoopInv
    <2>4. round \in 1 .. cfg.rounds /\ {c, round} \subseteq Nat
      BY <2>2, <2>3
    <2> QED
      BY <2>1, <2>3, <2>4
  <1>3. /\ rows \in Seq(Nat \X Nat \X Nat)
        /\ \A k \in DOMAIN rows : RowIsRight(rows[k])
        /\ \A k \in 1 .. Len(rows) - 1 : Earlier(rows[k], rows[k + 1])
        /\ rows # <<>> => Earlier(rows[Len(rows)], <<round, c>>)
        /\ Len(rows) = RoundsOf(round - 1) + Cardinality(Below(c)) + 0
        /\ ~Recorded /\ Recorded'
    <2>1. ~Recorded /\ Recorded' /\ RowsRight /\ RowsAscend /\ LastRow /\ RowCount
      BY <1>1 DEF RowInv, Recorded
    <2> QED
      BY <2>1 DEF RowsRight, RowsAscend, LastRow, RowCount
  <1>4. blocks_read = c * cfg.req_per_blocks
    BY JoinedCount DEF BlocksOf
  <1> DEFINE row == <<round, c, blocks_read>>
  <1>5. row \in Nat \X Nat \X Nat /\ row[1] = round /\ row[2] = c /\ row[3] = blocks_read
    BY <1>2, <1>4
  <1>6. RowIsRight(row)
    BY <1>2, <1>4, <1>5, ReachedPower DEF RowIsRight
  <1>7. rows # <<>> => Earlier(rows[Len(rows)], row)
    BY <1>3, <1>5 DEF Earlier
  <1> HIDE DEF row
  <1>8. rows' = Append(rows, row)
    BY <1>1 DEF row
  <1>9. /\ rows' \in Seq(Nat \X Nat \X Nat) /\ Len(rows') = Len(rows) + 1
        /\ \A k \in DOMAIN rows : rows'[k] = rows[k]
        /\ rows'[Len(rows) + 1] = row
        /\ DOMAIN rows' = 1 .. Len(rows) + 1 /\ DOMAIN rows = 1 .. Len(rows) /\ Len(rows) \in Nat
    BY <1>3, <1>5, <1>8
  <1>10. \A k \in DOMAIN rows' : RowIsRight(rows'[k])
    <2> SUFFICES ASSUME NEW k \in DOMAIN rows'
                 PROVE  RowIsRight(rows'[k])
      OBVIOUS
    <2>1. k \in DOMAIN rows \/ k = Len(rows) + 1
      BY <1>9
    <2> QED
      BY <1>3, <1>6, <1>9, <2>1
  <1>11. RowsRight'
    BY <1>1, <1>9, <1>10 DEF RowsRight, RowIsRight, PowersInRange
  <1>12. \A k \in 1 .. Len(rows') - 1 : Earlier(rows'[k], rows'[k + 1])
    <2> SUFFICES ASSUME NEW k \in 1 .. Len(rows)
                 PROVE  Earlier(rows'[k], rows'[k + 1])
      BY <1>9
    <2>1. CASE k = Len(rows)
      <3>1. rows # <<>>
        BY <1>9, <2>1
      <3> QED
        BY <1>7, <1>9, <2>1, <3>1
    <2>2. CASE k < Len(rows)
      <3>1. k \in 1 .. Len(rows) - 1 /\ k \in DOMAIN rows /\ k + 1 \in DOMAIN rows
        BY <1>9, <2>2
      <3> QED
        BY <1>3, <1>9, <3>1
    <2> QED
      BY <1>9, <2>1, <2>2
  <1>13. Below(c)' = Below(c) /\ RoundsOf(round - 1)' = RoundsOf(round - 1)
    BY <1>1 DEF Below, RoundsOf, PowersInRange
  <1>14. RowCount'
    <2>1. Len(rows') = (RoundsOf(round - 1) + Cardinality(Below(c)) + 0) + 1
      BY <1>3, <1>9
    <2>2. RoundsOf(round - 1) \in Nat /\ Cardinality(Below(c)) \in Nat
      <3>1. round - 1 \in Nat
        BY <1>2
      <3> QED
        BY <1>2, <3>1, NextRound, BelowIsCounted
    <2>3. Len(rows') = RoundsOf(round - 1) + Cardinality(Below(c)) + 1
      BY <2>1, <2>2
    <2> QED
      BY <1>3, <1>13, <2>3 DEF RowCount
  <1>15. LastRow'
    BY <1>1, <1>3, <1>5, <1>9 DEF LastRow
  <1>16. RowsAscend'
    BY <1>12 DEF RowsAscend, Earlier
  <1> QED
    BY <1>11, <1>14, <1>15, <1>16 DEF RowInv

LEMMA RowStep == LoopInv /\ ReaderInv /\ CountInv /\ RowInv /\ [Next]_vars => RowInv'
  <1> SUFFICES ASSUME LoopInv, ReaderInv, CountInv, RowInv, [Next]_vars
               PROVE  RowInv'
    OBVIOUS
  <1>1. CASE ParseArgs \/ SizeStore \/ AllocStore \/ AllSweepsDone \/ SweepFailed
    <2>1. main' \in {"sizes", "store", "csv", "exit"}
      BY <1>1 DEF ParseArgs, SizeStore, AllocStore, AllSweepsDone, SweepFailed, Exit
    <2> QED
      BY <2>1 DEF RowInv
  <1>2. CASE OpenCsv
    <2>1. CASE main' = "exit"
      BY <2>1 DEF RowInv
    <2>2. CASE main' = "sweeps"
      <3>1. rows' = <<>> /\ round' = 1 /\ c' = 1 /\ cfg' = cfg
            /\ {cfg.rounds, cfg.sweep_min, cfg.sweep_max} \subseteq 1 .. MaxU32
        BY <1>2, <2>2 DEF OpenCsv, LoopInv
      <3>2. Cardinality(Below(c))' = 0
        <4>1. Below(c)' = Below(1)
          BY <3>1 DEF Below, PowersInRange
        <4> QED
          BY <3>1, <4>1, BelowEnds
      <3>3. RoundsOf(round - 1)' = 0
        <4>1. RoundsOf(round - 1)' = RoundsOf(0)
          BY <3>1 DEF RoundsOf, PowersInRange
        <4>2. Cardinality(PowersInRange) \in Nat
          BY <3>1, RangeIsFinite, FS_CardinalityType
        <4> QED
          BY <4>1, <4>2 DEF RoundsOf
      <3>4. rows' \in Seq(Nat \X Nat \X Nat) /\ Len(rows') = 0 /\ DOMAIN rows' = {} /\ ~Recorded'
        BY <2>2, <3>1 DEF Recorded
      <3> QED
        BY <3>1, <3>2, <3>3, <3>4 DEF RowInv, RowsRight, RowsAscend, LastRow, RowCount
    <2> QED
      BY <1>2, <2>1, <2>2 DEF OpenCsv, Exit
  <1>3. CASE SkipSweep \/ SweepSucceeded
    BY <1>3, RowsAdvance
  <1>4. CASE JoinAndReport
    BY <1>4, RowsAppend
  <1>5. CASE BeginSweep \/ CreateReader \/ CreateFails \/ AllCreated \/ OpenGate \/ Cleanup
    <2>1. /\ main \in InSweep \cup {"sweeps", "returned"} /\ UNCHANGED <<cfg, round, c, rows>>
      BY <1>5 DEF BeginSweep, CreateReader, CreateFails, AllCreated, OpenGate, Cleanup
    <2>2. Recorded' = Recorded
      BY <1>5 DEF BeginSweep, CreateReader, CreateFails, AllCreated, OpenGate, Cleanup, Recorded, ReaderInv
    <2> QED
      BY <2>1, <2>2, RowsKept
  <1>6. CASE UNCHANGED <<main, cfg, round, c, rows, ret>>
    <2>1. CASE main \in InSweep \cup {"sweeps", "returned"}
      BY <1>6, <2>1, RowsKept DEF Recorded
    <2>2. CASE main \notin InSweep \cup {"sweeps", "returned"}
      BY <1>6, <2>2 DEF RowInv
    <2> QED
      BY <2>1, <2>2
  <1>7. ASSUME NEW i \in Thread, ReaderStep(i)
        PROVE  RowInv'
    BY <1>6, <1>7 DEF ReaderStep, Arrive, PassGate, ReadBlocks
  <1>8. CASE Exited \/ UNCHANGED vars
    BY <1>6, <1>8 DEF Exited, vars
  <1> QED
    BY <1>1, <1>2, <1>3, <1>4, <1>5, <1>7, <1>8 DEF Next, MainStep

LEMMA EndStep == LoopInv /\ ReaderInv /\ RowInv /\ EndInv /\ [Next]_vars => EndInv'
  <1> SUFFICES ASSUME LoopInv, ReaderInv, RowInv, EndInv, [Next]_vars
               PROVE  EndInv'
    OBVIOUS
  <1>1. CASE AllSweepsDone
    <2>1. /\ main = "sweeps" /\ round > cfg.rounds /\ UNCHANGED <<cfg, rows>>
      BY <1>1 DEF AllSweepsDone
    <2>0. /\ {cfg.rounds, cfg.sweep_min, cfg.sweep_max} \subseteq 1 .. MaxU32
          /\ round \in 0 .. MaxU32 /\ c = 1
      BY <2>1 DEF LoopInv
    <2>8. cfg.rounds < MaxU32 /\ cfg.rounds \in Nat
      BY <2>0, <2>1, WidthAssumption
    <2>9. round \in 1 .. cfg.rounds + 1
      BY <2>1, <2>8 DEF LoopInv
    <2>2. /\ round = cfg.rounds + 1 /\ c = 1 /\ round - 1 = cfg.rounds /\ cfg.rounds \in Nat
          /\ {cfg.rounds, cfg.sweep_min, cfg.sweep_max} \subseteq 1 .. MaxU32
      BY <2>0, <2>1, <2>8, <2>9
    <2>3. /\ \A k \in DOMAIN rows : RowIsRight(rows[k])
          /\ \A k \in 1 .. Len(rows) - 1 : Earlier(rows[k], rows[k + 1])
          /\ Len(rows) = RoundsOf(cfg.rounds) + Cardinality(Below(1)) + 0
      <3>1. ~Recorded /\ RowsRight /\ RowsAscend /\ RowCount
        BY <2>1, <2>8 DEF RowInv, Recorded
      <3> QED
        BY <2>2, <3>1 DEF RowsRight, RowsAscend, RowCount
    <2>4. Len(rows) = RoundsOf(cfg.rounds)
      <3>1. Cardinality(Below(1)) = 0
        BY <2>2, BelowEnds
      <3>2. RoundsOf(cfg.rounds) \in Nat
        BY <2>2, NextRound
      <3> QED
        BY <2>3, <3>1, <3>2
    <2>5. Swept
      BY <2>3, <2>4 DEF Swept, RowIsRight, Earlier, RoundsOf
    <2>6. Swept'
      BY <2>1, <2>5 DEF Swept, PowersInRange
    <2>7. main' = "exit"
      BY <1>1 DEF AllSweepsDone, Exit
    <2>10. ZeroMeansSwept'
      BY <2>6 DEF ZeroMeansSwept
    <2> QED
      BY <2>7, <2>10 DEF EndInv
  <1>2. CASE ParseArgs \/ SizeStore \/ AllocStore \/ OpenCsv \/ SweepFailed
    <2>1. main # "exit" /\ ((main' = "exit" /\ status' = 1) \/ (main' # "exit" /\ status' = status))
      BY <1>2 DEF ParseArgs, SizeStore, AllocStore, OpenCsv, SweepFailed, Exit
    <2> QED
      BY <2>1 DEF EndInv, ZeroMeansSwept
  <1>3. CASE SkipSweep \/ SweepSucceeded \/ BeginSweep \/ CreateReader \/ CreateFails
             \/ AllCreated \/ OpenGate \/ JoinAndReport \/ Cleanup
    <2>1. main # "exit" /\ main' # "exit" /\ status' = status
      BY <1>3 DEF SkipSweep, SweepSucceeded, BeginSweep, CreateReader, CreateFails,
         AllCreated, OpenGate, JoinAndReport, Cleanup
    <2> QED
      BY <2>1 DEF EndInv
  <1>4. CASE UNCHANGED <<main, cfg, rows, status>>
    BY <1>4 DEF EndInv, ZeroMeansSwept, Swept, PowersInRange
  <1>5. ASSUME NEW i \in Thread, ReaderStep(i)
        PROVE  EndInv'
    BY <1>4, <1>5 DEF ReaderStep, Arrive, PassGate, ReadBlocks
  <1>6. CASE Exited \/ UNCHANGED vars
    BY <1>4, <1>6 DEF Exited, vars
  <1> QED
    BY <1>1, <1>2, <1>3, <1>5, <1>6 DEF Next, MainStep

ResultInv == SweepInv /\ CountInv /\ RowInv /\ EndInv

\* The status is the truth: when the program returns 0 it has swept every power of two of
\* the range in every round, in order, each row with all the blocks of its readers, for
\* every range up to the end of the 32 bits.
THEOREM ZeroAlwaysMeansSwept == Spec => []ZeroMeansSwept
  <1>1. Init => ResultInv
    <2> SUFFICES ASSUME Init
                 PROVE  ResultInv
      OBVIOUS
    <2>1. CountInv /\ RowInv /\ EndInv
      BY DEF Init, CountInv, RowInv, EndInv
    <2> QED
      BY <2>1, InitSweep DEF ResultInv
  <1>2. command \in CommandLines /\ ResultInv /\ [Next]_vars => ResultInv'
    BY StepPlace, LoopStep, ReaderInvStep, KeptStep, CountStep, RowStep, EndStep DEF ResultInv, SweepInv
  <1>3. ResultInv => ZeroMeansSwept
    BY DEF ResultInv, EndInv, ZeroMeansSwept
  <1> QED
    BY <1>1, <1>2, <1>3, CommandKept, PTL DEF Spec

-----------------------------------------------------------------------------
(* Who waits for whom *)

\* Readers that have been counted at the gate.
ArrivedReaders == {i \in Thread : reader[i] \in {"gate", "read", "exit"}}

\* While readers are created and main waits, the gate is shut and counts those at it; main
\* expects those it created.
GateInv ==
  /\ main \in {"create", "gate"} => ~open /\ ready = Cardinality(ArrivedReaders)
  /\ main = "gate" => total = created
  /\ main = "create" => total = c
  /\ main \in {"join", "cleanup"} => open
  /\ main \in InSweep => \A i \in Thread : i < created => reader[i] # "none"
  /\ main = "cleanup" /\ ret = 0 => created = 0

LEMMA ArrivedIsFinite == IsFiniteSet(ArrivedReaders) /\ Cardinality(ArrivedReaders) \in Nat
  <1>1. MaxU32 \in Nat \ {0}
    BY WidthAssumption
  <1>2. IsFiniteSet(Thread)
    BY <1>1, FS_Interval DEF Thread
  <1> QED
    BY <1>2, FS_Subset, FS_CardinalityType DEF ArrivedReaders

LEMMA GateStep == LoopInv /\ ReaderInv /\ GateInv /\ [Next]_vars => GateInv'
  <1> SUFFICES ASSUME LoopInv, ReaderInv, GateInv, [Next]_vars
               PROVE  GateInv'
    OBVIOUS
  <1>1. CASE \/ ParseArgs \/ SizeStore \/ AllocStore \/ OpenCsv \/ SkipSweep \/ AllSweepsDone
             \/ SweepFailed \/ SweepSucceeded \/ Cleanup
    <2>1. main' \notin InSweep
      BY <1>1 DEF ParseArgs, SizeStore, AllocStore, OpenCsv, SkipSweep, AllSweepsDone, SweepFailed,
         SweepSucceeded, Cleanup, Exit
    <2> QED
      BY <2>1 DEF GateInv
  <1>2. CASE BeginSweep
    <2>1. CASE main' = "returned"
      BY <2>1 DEF GateInv
    <2>2. CASE main' = "create"
      <3>1. /\ reader' = [i \in Thread |-> "none"] /\ created' = 0 /\ ready' = 0 /\ total' = c
            /\ open' = FALSE /\ c' = c
        BY <1>2, <2>2 DEF BeginSweep
      <3>2. ArrivedReaders' = {}
        BY <3>1 DEF ArrivedReaders
      <3>3. Cardinality(ArrivedReaders)' = 0
        BY <3>2, FS_EmptySet
      <3>4. \A i \in Thread : ~ (i < 0)
        BY DEF Thread
      <3> QED
        BY <2>2, <3>1, <3>3, <3>4 DEF GateInv
    <2> QED
      BY <1>2, <2>1, <2>2 DEF BeginSweep
  <1>3. CASE CreateReader
    <2>1. main = "create" /\ created < c /\ created \in Nat
      BY <1>3 DEF CreateReader, ReaderInv
    <2>2. c \in Nat /\ c <= MaxU32 /\ MaxU32 \in Nat
      BY <2>1, WidthAssumption DEF LoopInv
    <2>3. created \in Thread /\ created >= created
      BY <2>1, <2>2 DEF Thread
    <2>4. reader[created] = "none" /\ reader \in [Thread -> {"none", "start", "gate", "read", "exit"}]
      BY <2>1, <2>3 DEF ReaderInv
    <2>5. reader' = [reader EXCEPT ![created] = "start"] /\ created' = created + 1
          /\ UNCHANGED <<main, c, ready, total, open>>
      BY <1>3 DEF CreateReader
    <2>6. ArrivedReaders' = ArrivedReaders
      BY <2>3, <2>4, <2>5 DEF ArrivedReaders
    <2>7. ASSUME NEW i \in Thread, i < created + 1
          PROVE  reader'[i] # "none"
      <3>1. i = created \/ i < created
        BY <2>1, <2>7 DEF Thread
      <3> QED
        BY <2>1, <2>3, <2>4, <2>5, <3>1 DEF GateInv
    <2> QED
      BY <2>1, <2>5, <2>6, <2>7 DEF GateInv
  <1>4. CASE CreateFails \/ AllCreated
    <2>1. /\ main = "create" /\ main' = "gate" /\ UNCHANGED <<reader, created, ready, open, c>>
          /\ total' = created
      BY <1>4 DEF CreateFails, AllCreated, GateInv
    <2> QED
      BY <2>1 DEF GateInv, ArrivedReaders
  <1>5. CASE OpenGate
    <2>1. /\ main = "gate" /\ main' \in {"join", "cleanup"} /\ UNCHANGED <<reader, created, ret>> /\ open'
          /\ (main' = "cleanup" => ret = -1)
      BY <1>5 DEF OpenGate
    <2> QED
      BY <2>1 DEF GateInv
  <1>6. CASE JoinAndReport
    <2>1. main = "join" /\ main' = "cleanup" /\ created' = 0 /\ open' = open
      BY <1>6 DEF JoinAndReport
    <2>2. \A i \in Thread : ~ (i < 0)
      BY DEF Thread
    <2> QED
      BY <2>1, <2>2 DEF GateInv
  <1>7. ASSUME NEW i \in Thread, ReaderStep(i)
        PROVE  GateInv'
    <2>1. UNCHANGED <<main, c, created, total, open, ret>>
      BY <1>7 DEF ReaderStep, Arrive, PassGate, ReadBlocks
    <2>2. reader \in [Thread -> {"none", "start", "gate", "read", "exit"}]
      BY DEF ReaderInv
    <2>3. \E s \in {"gate", "read", "exit"} : reader' = [reader EXCEPT ![i] = s]
      BY <1>7 DEF ReaderStep, Arrive, PassGate, ReadBlocks
    <2>4. \A j \in Thread : reader[j] # "none" => reader'[j] # "none"
      BY <2>2, <2>3
    <2>5. CASE Arrive(i)
      <3>1. ready' = ready + 1 /\ reader[i] = "start" /\ reader' = [reader EXCEPT ![i] = "gate"]
        BY <2>5 DEF Arrive
      <3>2. ArrivedReaders' = ArrivedReaders \cup {i} /\ i \notin ArrivedReaders
        BY <2>2, <3>1 DEF ArrivedReaders
      <3>3. Cardinality(ArrivedReaders)' = Cardinality(ArrivedReaders) + 1
        BY <3>2, ArrivedIsFinite, FS_AddElement
      <3> QED
        BY <2>1, <2>4, <3>1, <3>3 DEF GateInv
    <2>6. CASE PassGate(i) \/ ReadBlocks(i)
      <3>1. ready' = ready /\ reader[i] \in {"gate", "read"}
        BY <2>6 DEF PassGate, ReadBlocks
      <3>2. ArrivedReaders' = ArrivedReaders
        BY <2>2, <2>3, <3>1 DEF ArrivedReaders
      <3> QED
        BY <2>1, <2>4, <3>1, <3>2 DEF GateInv
    <2> QED
      BY <1>7, <2>5, <2>6 DEF ReaderStep
  <1>8. CASE Exited \/ UNCHANGED vars
    BY <1>8 DEF Exited, vars, GateInv, ArrivedReaders
  <1> QED
    BY <1>1, <1>2, <1>3, <1>4, <1>5, <1>6, <1>7, <1>8 DEF Next, MainStep

\* A count below the number of readers that were created leaves one that has not come.
LEMMA SomebodyToCome ==
  ASSUME LoopInv, ReaderInv, GateInv, main = "gate", ready < total
  PROVE  \E i \in Thread : reader[i] = "start"
  <1> SUFFICES ASSUME \A i \in Thread : reader[i] # "start"
               PROVE  FALSE
    OBVIOUS
  <1>1. /\ c \in Nat /\ c <= MaxU32 /\ MaxU32 \in Nat /\ created \in Nat /\ created <= c
        /\ reader \in [Thread -> {"none", "start", "gate", "read", "exit"}]
    BY WidthAssumption DEF LoopInv, ReaderInv
  <1>2. 0 .. created - 1 \subseteq ArrivedReaders
    <2> SUFFICES ASSUME NEW i \in 0 .. created - 1
                 PROVE  i \in ArrivedReaders
      OBVIOUS
    <2>1. i \in Thread /\ i < created
      BY <1>1 DEF Thread
    <2>2. reader[i] # "none" /\ reader[i] # "start"
      BY <2>1 DEF GateInv
    <2> QED
      BY <1>1, <2>1, <2>2 DEF ArrivedReaders
  <1>3. Cardinality(0 .. created - 1) = created
    BY <1>1, FS_Interval
  <1>4. Cardinality(0 .. created - 1) <= Cardinality(ArrivedReaders)
    BY <1>2, ArrivedIsFinite, FS_Subset
  <1> QED
    BY <1>1, <1>3, <1>4, ArrivedIsFinite DEF GateInv

\* main never waits for a reader that does not exist or cannot go on, whichever creation
\* fails: with every thread scheduled, run_one_sweep returns.
THEOREM WaitsAlwaysEnd == Spec => []WaitsEnd
  <1>1. Init => GateInv
    BY DEF Init, GateInv
  <1>2. SweepInv /\ GateInv /\ [Next]_vars => GateInv'
    BY GateStep DEF SweepInv
  <1>3. SweepInv /\ GateInv => WaitsEnd
    <2> SUFFICES ASSUME SweepInv, GateInv
                 PROVE  WaitsEnd
      OBVIOUS
    <2>1. main = "gate" /\ ready < total => \E i \in Thread : reader[i] = "start"
      BY SomebodyToCome DEF SweepInv
    <2>2. ASSUME main \in {"join", "cleanup"},
                 NEW i \in 0 .. (IF main = "join" THEN c ELSE created) - 1
          PROVE  reader[i] # "none"
      <3>1. c \in Nat /\ c <= MaxU32 /\ MaxU32 \in Nat
        <4>1. main \in InSweep /\ main \notin {"args", "exit"}
          BY <2>2 DEF InSweep
        <4>2. c \in 1 .. cfg.sweep_max /\ cfg.sweep_max \in 1 .. MaxU32
          BY <4>1 DEF SweepInv, LoopInv
        <4> QED
          BY <4>2, WidthAssumption
      <3>2. created \in Nat /\ (main = "join" => created = c)
        BY DEF SweepInv, ReaderInv
      <3>3. created <= c
        <4>1. CASE main = "cleanup" /\ ret = 0
          BY <3>1, <4>1 DEF GateInv
        <4>2. CASE main = "join"
          BY <3>1, <3>2, <4>2
        <4>3. CASE main = "cleanup" /\ ret = -1
          BY <4>3 DEF SweepInv, ReaderInv
        <4>4. ret \in {0, -1}
          BY DEF SweepInv, ReaderInv
        <4> QED
          BY <2>2, <4>1, <4>2, <4>3, <4>4
      <3>4. i \in Thread /\ i < created
        <4>1. (IF main = "join" THEN c ELSE created) = created
          BY <3>2
        <4>2. i \in 0 .. created - 1
          BY <2>2, <4>1
        <4> QED
          BY <3>1, <3>2, <3>3, <4>2 DEF Thread
      <3> QED
        BY <2>2, <3>4 DEF GateInv
    <2> QED
      BY <2>1, <2>2 DEF WaitsEnd, GateInv
  <1> QED
    BY AlwaysSweep, <1>1, <1>2, <1>3, PTL DEF Spec
=============================================================================
