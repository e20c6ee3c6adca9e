-------------------------- MODULE Partition_proofs --------------------------
(***************************************************************************)
(* Proofs about Partition, for every block size, device, partition and set *)
(* of versions: its types, that a call changes no bytes but its own        *)
(* (OnlyOwnBytes), and that a call which returns has moved each of them    *)
(* (CallOutcome).                                                          *)
(*                                                                         *)
(* Where a call's bytes are in blocks is settled once (CallGeometry); from *)
(* there on every step compares places by addition alone.  TypeInv says    *)
(* which command each phase of a call has issued and what is in a buffer   *)
(* that is written.  ContentInv says, for a call that nothing has made     *)
(* doubtful, how what was moved, what the device still has to send and     *)
(* what it has stored make up the whole.                                   *)
(***************************************************************************)
EXTENDS Partition, TLAPS, SequenceTheorems, FiniteSetTheorems

IsCall(o) == o \in Calls("read", OldVersion) \/ o \in WriteCalls

DeviceEnd == (LastBlock + 1) * BlockSize    \* behind the last position

AnswersOK ==
    \/ answers = <<>>
    \/ \E ok \in BOOLEAN : answers = <<StatusAnswer(ok)>>
    \/ \E ok \in BOOLEAN :
         /\ answers = <<DataAnswer(answers[1].bytes), StatusAnswer(ok)>>
         /\ answers[1].bytes \in Seq(Byte)

(* A device that waits for the data of a write: n bytes for the blocks     *)
(* from b on, of which it has bs.  It has nothing to send.                 *)
Waiting(b, n, bs) == [block |-> b, size |-> n, bytes |-> bs]

Waits(b, n, bs) ==
    /\ b \in 0..LastBlock /\ n \in Nat /\ bs \in Seq(Byte)
    /\ taking = <<Waiting(b, n, bs)>> /\ answers = <<>>
    /\ Len(bs) < n /\ Start(b) + n <= DeviceEnd

TakingOK == taking = <<>> \/ \E b, n, bs : Waits(b, n, bs)

(* The transport by itself.                                                *)
CommandInv ==
    /\ ScsiTypeOK /\ moved \in Nat /\ AnswersOK /\ TakingOK
    /\ command = [dir |-> command.dir, block |-> command.block,
                  buffer |-> command.buffer]
    /\ Start(command.block) + Size <= DeviceEnd
    /\ step # "none" => Size > 0

(* The command in progress is the one the call has come to.                *)
CallInv ==
    /\ op = NoOp \/ IsCall(op)
    /\ at \in {"idle", "head", "patch", "rest", "returned", "threw"}
    /\ at # "idle" => IsCall(op)
    /\ (at \in {"idle", "returned", "threw"}) = (step = "none")
    /\ dest \in Seq(Byte) /\ doubtful \in BOOLEAN
    /\ at \in {"head", "patch"} => /\ command.block = BlockOf(op.offset)
                                   /\ Size = BlockSize
                                   /\ Inside(op.offset) # 0
    /\ at = "head" => command.dir = "in" /\ dest = <<>>
    /\ at = "patch" => command.dir = "out" /\ op.kind = "write"
    /\ at = "rest" => /\ command.block = RestBlock(op)
                      /\ Size = Rounded(Rest(op))
                      /\ Rest(op) > 0
                      /\ command.dir = IF op.kind = "read" THEN "in" ELSE "out"

(* What a call writes.                                                     *)
BufferInv ==
    /\ at = "patch" =>
         \A i \in 1..HeadLength(op) :
           command.buffer[Inside(op.offset) + i] = Source(op)[i]
    /\ at = "rest" /\ op.kind = "write" =>
         \A i \in 1..Size :
           command.buffer[i] = IF i <= Rest(op)
                                 THEN Source(op)[HeadLength(op) + i] ELSE Padding

TypeInv == CommandInv /\ CallInv /\ BufferInv

(* The data the device waits for is for blocks of the call it is from.     *)
HistoryInv ==
    /\ failed \in BOOLEAN
    /\ taking = <<>> => writer = NoOp
    /\ taking # <<>> =>
         /\ writer \in WriteCalls
         /\ Start(BlockOf(writer.offset)) <= Start(taking[1].block)
         /\ Start(taking[1].block) + taking[1].size
              <= Start(RestBlock(writer)) + Rounded(Rest(writer))

(* The buffer holds what is stored where the command is about.             *)
SameAsStored(c) ==
    \A i \in 1..Len(c.buffer) : c.buffer[i] = device[Start(c.block) + i - 1]

(* The command in progress and the device's part of it: of a command that  *)
(* did not go out the device knows nothing.                                *)
TransferInv ==
    /\ step = "command" => Ready /\ moved = 0
    /\ step = "data" /\ command.dir = "out" =>
         \/ taking = <<>> /\ failed
         \/ /\ Waits(command.block, Size, SubSeq(command.buffer, 1, moved))
            /\ writer = op
    /\ step \in {"status", "done"} => taking = <<>>
    /\ step = "data" /\ command.dir = "in" =>
         /\ taking = <<>>
         /\ answers = <<>> => failed
    /\ step = "data" /\ command.dir = "in" /\ answers # <<>> =>
         \E ok \in BOOLEAN :
           /\ answers = <<DataAnswer(answers[1].bytes), StatusAnswer(ok)>>
           /\ Len(answers[1].bytes) = Size - moved
           /\ ok => /\ \A i \in 1..moved :
                         command.buffer[i] = device[Start(command.block) + i - 1]
                    /\ \A i \in 1..Len(answers[1].bytes) :
                         answers[1].bytes[i]
                           = device[Start(command.block) + moved + i - 1]
    /\ step = "status" =>
         \E ok \in BOOLEAN :
           answers = <<StatusAnswer(ok)>> /\ (ok => SameAsStored(command))
    /\ step = "done" /\ answers = <<>> /\ csw => SameAsStored(command)
    /\ step = "threw" => failed

(* The first n bytes of a call are stored, or have been found.             *)
StoredUpTo(o, n) ==
    \A i \in 1..n : device[Position(o.offset) + i - 1] = Source(o)[i]
FoundUpTo(o, n) ==
    /\ Len(dest) = n
    /\ \A i \in 1..n : dest[i] = device[Position(o.offset) + i - 1]

MovedUpTo(o, n) == IF o.kind = "read" THEN FoundUpTo(o, n) ELSE StoredUpTo(o, n)

(* The parts of the call that are behind it.                               *)
PartsInv ==
    /\ at = "patch" =>
         \A i \in 1..BlockSize :
           i \notin Inside(op.offset) + 1..Inside(op.offset) + HeadLength(op) =>
             command.buffer[i] = device[Start(command.block) + i - 1]
    /\ at = "rest" => MovedUpTo(op, HeadLength(op))
    /\ at = "returned" => MovedUpTo(op, op.length)

(* A call throws for a reason.                                             *)
ThrewInv == at = "threw" => doubtful \/ failed \/ Overflows(op)

ContentInv == /\ ~doubtful => TransferInv /\ PartsInv
              /\ ThrewInv

IInv == TypeInv /\ HistoryInv /\ ContentInv

-----------------------------------------------------------------------------
(* Places in blocks                                                        *)

(* The order of factors does not matter.                                   *)
LEMMA TimesCommutes ==
  ASSUME NEW B \in Nat, NEW q \in Nat
  PROVE  B * q = q * B
OBVIOUS

(* The operators / and % of the code on what they are used for.            *)
LEMMA DivMod ==
  ASSUME NEW B \in Nat, B > 0, NEW n \in Nat
  PROVE  /\ n \div B \in Nat /\ n % B \in Nat /\ n % B < B
         /\ n = (n \div B) * B + (n % B)
<1> DEFINE q == n \div B  r == n % B
<1>1. q \in Nat /\ r \in Nat /\ r < B
  OBVIOUS
<1> HIDE DEF q, r
<1>2. n = B * q + r
  BY Z3, <1>1 DEF q, r
<1>3. B * q = q * B
  BY <1>1, TimesCommutes
<1> QED BY Zenon, <1>1, <1>2, <1>3 DEF q, r

(* A block in front of another ends before it.                             *)
LEMMA BlocksOrdered ==
  ASSUME NEW B \in Nat, B > 0, NEW a \in Int, NEW b \in Int, a * B < (b + 1) * B
  PROVE  a <= b
OBVIOUS

(* Blocks side by side.                                                    *)
LEMMA BlocksAdd ==
  ASSUME NEW B \in Nat, NEW a \in Nat, NEW b \in Nat
  PROVE  /\ a * B \in Nat
         /\ (a + b) * B = a * B + b * B
         /\ (a + 1) * B = a * B + B
OBVIOUS

(* Earlier blocks start earlier.                                           *)
LEMMA BlocksUpTo ==
  ASSUME NEW B \in Nat, NEW a \in Nat, NEW b \in Nat, a <= b
  PROVE  a * B <= b * B
OBVIOUS

(* Whole blocks leave nothing over.                                        *)
LEMMA WholeBlocks ==
  ASSUME NEW B \in Nat, B > 0, NEW a \in Nat
  PROVE  (a * B) % B = 0
OBVIOUS

(* Rounding up adds less than a block.                                     *)
LEMMA RoundedUp ==
  ASSUME NEW n \in Nat
  PROVE  \E k \in Nat : /\ Rounded(n) = k * BlockSize
                        /\ n <= Rounded(n) /\ Rounded(n) < n + BlockSize
                        /\ Rounded(n) \in Nat /\ Rounded(n) % BlockSize = 0
<1> DEFINE m == n + BlockSize - 1  k == m \div BlockSize
<1>1. BlockSize \in Nat /\ BlockSize > 0 /\ m \in Nat
  BY SizeAssumption
<1> HIDE DEF m
<1>2. /\ k \in Nat /\ m % BlockSize \in Nat /\ m % BlockSize < BlockSize
      /\ m = k * BlockSize + (m % BlockSize)
  BY <1>1, DivMod
<1>3. Rounded(n) = k * BlockSize
  BY DEF Rounded, m
<1> HIDE DEF k
<1>4. k * BlockSize \in Nat /\ (k * BlockSize) % BlockSize = 0
  BY <1>1, <1>2, BlocksAdd, WholeBlocks
<1>5. n <= k * BlockSize /\ k * BlockSize < n + BlockSize
  <2> DEFINE w == k * BlockSize  r == m % BlockSize
  <2>1. m = w + r
    BY <1>2
  <2>2. w \in Nat /\ r \in Nat /\ r < BlockSize
    BY <1>2, <1>4
  <2> HIDE DEF w, r
  <2>3. n <= w /\ w < n + BlockSize
    BY <1>1, <2>1, <2>2 DEF m
  <2> QED BY <2>3 DEF w
<1> QED BY <1>2, <1>3, <1>4, <1>5

(* The number of bytes of the partition.                                   *)
PartitionSize == (LastBlock + 1 - FirstBlock) * BlockSize

(* The constants, as far as places depend on them.                         *)
LEMMA Sizes ==
  /\ BlockSize \in Nat /\ BlockSize > 0 /\ LastBlock \in Nat
  /\ FirstBlock \in Nat /\ FirstBlock <= LastBlock
  /\ PartitionSize \in Nat /\ Start(FirstBlock) \in Nat /\ DeviceEnd \in Nat
  /\ Start(FirstBlock) + PartitionSize = DeviceEnd
  /\ Cardinality(Bytes) = PartitionSize
  /\ Bytes = 0..PartitionSize - 1
  /\ Positions = 0..DeviceEnd - 1
<1>1. /\ BlockSize \in Nat /\ BlockSize > 0 /\ LastBlock \in Nat
      /\ FirstBlock \in Nat /\ FirstBlock <= LastBlock
  BY SizeAssumption, PartitionAssumption
<1> DEFINE n == LastBlock + 1 - FirstBlock
<1>2. n \in Nat /\ n + FirstBlock = LastBlock + 1
  BY <1>1
<1>3. /\ n * BlockSize \in Nat /\ FirstBlock * BlockSize \in Nat
      /\ (FirstBlock + n) * BlockSize = FirstBlock * BlockSize + n * BlockSize
      /\ (LastBlock + 1) * BlockSize \in Nat
  BY <1>1, <1>2, BlocksAdd
<1>4. Bytes = 0..PartitionSize - 1 /\ PartitionSize \in Nat
  BY <1>3 DEF Bytes, PartitionSize
<1>5. Cardinality(Bytes) = PartitionSize
  <2>1. Cardinality(0..PartitionSize - 1) = IF 0 > PartitionSize - 1 THEN 0
                                            ELSE PartitionSize - 1 - 0 + 1
    <3>1. PartitionSize - 1 \in Int
      BY <1>4
    <3> QED BY <3>1, FS_Interval
  <2> QED BY <2>1, <1>4
<1> QED BY <1>1, <1>2, <1>3, <1>4, <1>5
        DEF PartitionSize, Start, DeviceEnd, Positions

(* A call's parameters.                                                    *)
LEMMA CallFields ==
  ASSUME NEW o, IsCall(o)
  PROVE  /\ o.kind \in {"read", "write"}
         /\ o.version \in Versions \cup {OldVersion}
         /\ o.offset \in Nat /\ o.length \in Nat /\ o.length > 0
         /\ o.offset + o.length <= PartitionSize
<1> SUFFICES ASSUME NEW kind \in {"read", "write"},
                    NEW version \in Versions \cup {OldVersion},
                    o \in Calls(kind, version)
             PROVE  /\ o.kind \in {"read", "write"}
                    /\ o.version \in Versions \cup {OldVersion}
                    /\ o.offset \in Nat /\ o.length \in Nat /\ o.length > 0
                    /\ o.offset + o.length <= PartitionSize
  BY DEF IsCall, WriteCalls
<1>1. /\ o.kind = kind /\ o.version = version
      /\ o.offset \in Bytes /\ o.length \in Bytes \cup {Cardinality(Bytes)}
      /\ o.length > 0 /\ o.offset + o.length <= Cardinality(Bytes)
  BY DEF Calls
<1> QED BY <1>1, Sizes

(* The sizes as numbers.                                                   *)
LEMMA Numbers ==
  /\ BlockSize \in Nat /\ BlockSize > 0 /\ LastBlock \in Nat /\ DeviceEnd \in Nat
BY Sizes

(* The first block of a call.                                              *)
LEMMA FirstBlockOfCall ==
  ASSUME NEW o, IsCall(o)
  PROVE  /\ Inside(o.offset) \in Nat /\ Inside(o.offset) < BlockSize
         /\ BlockOf(o.offset) \in 0..LastBlock
         /\ Start(BlockOf(o.offset)) \in Nat
         /\ Position(o.offset) = Start(BlockOf(o.offset)) + Inside(o.offset)
         /\ Position(o.offset) + o.length <= DeviceEnd
         /\ Start(BlockOf(o.offset)) + BlockSize <= DeviceEnd
         /\ Start(BlockOf(o.offset) + 1)
              = Start(BlockOf(o.offset)) + BlockSize
<1> DEFINE q == o.offset \div BlockSize  s == o.offset % BlockSize
           b == BlockOf(o.offset)
<1>1. /\ o.offset \in Nat /\ o.length \in Nat /\ o.length > 0
      /\ o.offset + o.length <= PartitionSize
  BY CallFields
<1>2. /\ q \in Nat /\ s \in Nat /\ s < BlockSize /\ o.offset = q * BlockSize + s
  BY <1>1, Sizes, DivMod
<1>3. Inside(o.offset) = s /\ b = q + FirstBlock
  BY DEF Inside, BlockOf
<1> HIDE DEF q, s
<1>4. /\ b \in Nat /\ q * BlockSize \in Nat
      /\ Start(b) = q * BlockSize + Start(FirstBlock)
      /\ Start(b) \in Nat /\ Start(b + 1) = Start(b) + BlockSize
  <2>1. (q + FirstBlock) * BlockSize = q * BlockSize + FirstBlock * BlockSize
    BY <1>2, Sizes, BlocksAdd
  <2>2. q + FirstBlock \in Nat
    BY <1>2, Sizes
  <2>3. (q + FirstBlock + 1) * BlockSize
          = (q + FirstBlock) * BlockSize + BlockSize
    BY <2>2, Sizes, BlocksAdd
  <2>4. q * BlockSize \in Nat /\ FirstBlock * BlockSize \in Nat
    BY <1>2, Sizes, BlocksAdd
  <2> QED BY <1>3, <2>1, <2>2, <2>3, <2>4, Sizes DEF Start
<1> DEFINE t == q * BlockSize
<1>5. /\ o.offset = t + s /\ t \in Nat /\ s \in Nat /\ s < BlockSize
      /\ Start(b) = t + Start(FirstBlock)
  BY <1>2, <1>4
<1> HIDE DEF t, b
<1>6. /\ Position(o.offset) = Start(b) + s
      /\ Position(o.offset) + o.length <= DeviceEnd
  <2>1. Position(o.offset) = Start(FirstBlock) + o.offset
    BY DEF Position, Start
  <2> QED BY <1>1, <1>5, <2>1, Sizes
<1>7. b <= LastBlock
  <2>1. b * BlockSize < (LastBlock + 1) * BlockSize
    <3>1. Start(b) < DeviceEnd
      BY <1>1, <1>2, <1>4, <1>6, Numbers
    <3> QED BY <3>1 DEF Start, DeviceEnd
  <2> QED BY <2>1, <1>4, Sizes, BlocksOrdered
<1>8. Start(b) + BlockSize <= DeviceEnd
  <2>1. (b + 1) * BlockSize <= (LastBlock + 1) * BlockSize
    <3>1. b + 1 \in Nat /\ LastBlock + 1 \in Nat /\ b + 1 <= LastBlock + 1
      BY <1>4, <1>7, Sizes
    <3> QED BY <3>1, Sizes, BlocksUpTo
  <2>2. Start(b + 1) <= DeviceEnd
    BY <2>1 DEF Start, DeviceEnd
  <2> QED BY <1>4, <2>2
<1>9. b \in 0..LastBlock
  BY <1>4, <1>7, Numbers
<1> QED BY <1>2, <1>3, <1>4, <1>6, <1>8, <1>9 DEF b

(* All places a call is about: its bytes in the first block, if it starts  *)
(* inside of it, and the whole blocks of the rest, none behind the device. *)
LEMMA CallGeometry ==
  ASSUME NEW o, IsCall(o)
  PROVE  /\ Inside(o.offset) \in Nat /\ Inside(o.offset) < BlockSize
         /\ HeadLength(o) \in Nat /\ Rest(o) \in Nat
         /\ o.length = HeadLength(o) + Rest(o)
         /\ BlockOf(o.offset) \in 0..LastBlock
         /\ Start(BlockOf(o.offset)) \in Nat
         /\ Position(o.offset) = Start(BlockOf(o.offset)) + Inside(o.offset)
         /\ Position(o.offset) + o.length <= DeviceEnd
         /\ Start(BlockOf(o.offset)) + BlockSize <= DeviceEnd
         /\ Inside(o.offset) = 0 => /\ HeadLength(o) = 0 /\ Rest(o) > 0
                                    /\ RestBlock(o) = BlockOf(o.offset)
         /\ Inside(o.offset) # 0 =>
              /\ Inside(o.offset) + HeadLength(o) <= BlockSize
              /\ Start(RestBlock(o)) = Start(BlockOf(o.offset)) + BlockSize
              /\ Rest(o) > 0 => Inside(o.offset) + HeadLength(o) = BlockSize
              /\ o.length >= BlockSize - Inside(o.offset) =>
                   Inside(o.offset) + HeadLength(o) = BlockSize
         /\ Rounded(Rest(o)) \in Nat /\ Rounded(Rest(o)) >= Rest(o)
         /\ Rounded(Rest(o)) % BlockSize = 0
         /\ Start(RestBlock(o)) \in Nat
         /\ Rest(o) > 0 =>
              /\ RestBlock(o) \in 0..LastBlock
              /\ Start(RestBlock(o)) = Position(o.offset) + HeadLength(o)
              /\ Start(RestBlock(o)) + Rounded(Rest(o)) <= DeviceEnd
<1> DEFINE s == Inside(o.offset)  b == BlockOf(o.offset)  h == HeadLength(o)
           r == Rest(o)  rb == RestBlock(o)  R == Rounded(r)
           p == Position(o.offset)
<1>1. o.length \in Nat /\ o.length > 0
  BY CallFields
<1>2. /\ s \in Nat /\ s < BlockSize /\ b \in 0..LastBlock /\ Start(b) \in Nat
      /\ p = Start(b) + s /\ p + o.length <= DeviceEnd
      /\ Start(b) + BlockSize <= DeviceEnd
      /\ Start(b + 1) = Start(b) + BlockSize
  BY FirstBlockOfCall
<1>3. /\ h \in Nat /\ r \in Nat /\ o.length = h + r
      /\ s = 0 => h = 0 /\ r > 0
      /\ s # 0 => /\ s + h <= BlockSize
                  /\ r > 0 => s + h = BlockSize
                  /\ o.length >= BlockSize - s => s + h = BlockSize
  BY <1>1, <1>2, Numbers DEF HeadLength, Rest
<1>4. rb = IF s = 0 THEN b ELSE b + 1
  BY <1>2, Sizes DEF RestBlock
<1> HIDE DEF s, b, h, r, rb, p
<1>5. /\ rb \in Nat /\ Start(rb) \in Nat
      /\ Start(rb) = IF s = 0 THEN Start(b) ELSE Start(b) + BlockSize
  BY <1>2, <1>4, Sizes
<1>6. r > 0 => Start(rb) = p + h
  BY <1>2, <1>3, <1>5, Numbers
<1>7. PICK k \in Nat : /\ R = k * BlockSize /\ r <= R /\ R < r + BlockSize
                       /\ R \in Nat /\ R % BlockSize = 0
  BY <1>3, RoundedUp
<1> HIDE DEF R
<1>8. ASSUME r > 0  PROVE rb <= LastBlock /\ Start(rb) + R <= DeviceEnd
  <2>1. Start(rb) + R < DeviceEnd + BlockSize
    BY <1>1, <1>2, <1>3, <1>6, <1>7, <1>8, Numbers
  <2>2. Start(rb + k) = Start(rb) + R
    BY <1>5, <1>7, Sizes, BlocksAdd DEF Start
  <2>3. rb + k <= LastBlock + 1
    <3>1. rb + k \in Int /\ LastBlock + 1 \in Nat
      BY <1>5, Sizes
    <3>2. (LastBlock + 1 + 1) * BlockSize = (LastBlock + 1) * BlockSize + BlockSize
      BY <3>1, Sizes, BlocksAdd
    <3>3. (rb + k) * BlockSize < (LastBlock + 1 + 1) * BlockSize
      <4>1. Start(rb + k) < DeviceEnd + BlockSize
        BY <2>1, <2>2
      <4> QED BY <4>1, <3>2 DEF Start, DeviceEnd
    <3> QED BY <3>1, <3>3, Sizes, BlocksOrdered
  <2>4. k > 0
    BY <1>3, <1>7, <1>8, Sizes
  <2>5. (rb + k) * BlockSize <= (LastBlock + 1) * BlockSize
    <3>1. rb + k \in Nat /\ LastBlock + 1 \in Nat
      BY <1>5, Sizes
    <3> QED BY <3>1, <2>3, Sizes, BlocksUpTo
  <2>6. Start(rb + k) <= DeviceEnd
    BY <2>5 DEF Start, DeviceEnd
  <2>7. rb <= LastBlock
    BY <1>5, <2>3, <2>4, Sizes
  <2> QED BY <2>2, <2>6, <2>7
<1>9. /\ s \in Nat /\ s < BlockSize /\ h \in Nat /\ r \in Nat
      /\ o.length = h + r
      /\ b \in 0..LastBlock /\ Start(b) \in Nat /\ p = Start(b) + s
      /\ p + o.length <= DeviceEnd /\ Start(b) + BlockSize <= DeviceEnd
      /\ s = 0 => h = 0 /\ r > 0 /\ rb = b
      /\ s # 0 => /\ s + h <= BlockSize
                  /\ Start(rb) = Start(b) + BlockSize
                  /\ r > 0 => s + h = BlockSize
                  /\ o.length >= BlockSize - s => s + h = BlockSize
      /\ R \in Nat /\ R >= r /\ R % BlockSize = 0 /\ Start(rb) \in Nat
      /\ r > 0 => /\ rb \in 0..LastBlock /\ Start(rb) = p + h
                  /\ Start(rb) + R <= DeviceEnd
  <2>1. R >= r
    BY <1>3, <1>7
  <2>2. r > 0 => rb \in 0..LastBlock
    BY <1>5, <1>8, Sizes
  <2>3. s = 0 => rb = b
    BY <1>4
  <2>4. s # 0 => Start(rb) = Start(b) + BlockSize
    BY <1>5
  <2> QED BY <1>2, <1>3, <1>5, <1>6, <1>7, <1>8, <2>1, <2>2, <2>3, <2>4
<1> QED BY <1>9 DEF s, b, h, r, rb, R, p

-----------------------------------------------------------------------------
(* Sequences                                                               *)

(* A function on 1..n is a sequence of n elements.                         *)
LEMMA FunctionIsSeq ==
  ASSUME NEW S, NEW n \in Nat, NEW f \in [1..n -> S]
  PROVE  f \in Seq(S) /\ Len(f) = n
BY SeqDef

(* The elements of a sequence.                                             *)
LEMMA SeqIsFunction ==
  ASSUME NEW S, NEW s \in Seq(S)
  PROVE  /\ Len(s) \in Nat /\ s \in [1..Len(s) -> S]
         /\ \A i \in 1..Len(s) : s[i] \in S
OBVIOUS

(* The first bytes of an answer, and those that stay.                      *)
LEMMA CutBytes ==
  ASSUME NEW S, NEW s \in Seq(S), NEW n \in 1..Len(s)
  PROVE  /\ SubSeq(s, 1, n) \in Seq(S) /\ Len(SubSeq(s, 1, n)) = n
         /\ \A i \in 1..n : SubSeq(s, 1, n)[i] = s[i]
         /\ SubSeq(s, n + 1, Len(s)) \in Seq(S)
         /\ Len(SubSeq(s, n + 1, Len(s))) = Len(s) - n
         /\ \A i \in 1..Len(s) - n : SubSeq(s, n + 1, Len(s))[i] = s[n + i]
<1>1. \A i \in 1..Len(s) : s[i] \in S
  OBVIOUS
<1>2. SubSeq(s, 1, n) = [i \in 1..n |-> s[i]]
  OBVIOUS
<1>3. SubSeq(s, n + 1, Len(s)) = [i \in 1..Len(s) - n |-> s[n + i]]
  OBVIOUS
<1>4. [i \in 1..n |-> s[i]] \in [1..n -> S] /\ n \in Nat
  BY <1>1
<1>5. [i \in 1..Len(s) - n |-> s[n + i]] \in [1..Len(s) - n -> S]
      /\ Len(s) - n \in Nat
  BY <1>1
<1> QED BY <1>2, <1>3, <1>4, <1>5, FunctionIsSeq

(* Bytes behind bytes.                                                     *)
LEMMA BytesAppended ==
  ASSUME NEW S, NEW s \in Seq(S), NEW t \in Seq(S)
  PROVE  s \o t \in Seq(S) /\ Len(s \o t) = Len(s) + Len(t)
BY ConcatProperties

(* The next n bytes of a buffer are none, or a piece of it.                *)
LEMMA NextPiece ==
  ASSUME NEW S, NEW s \in Seq(S), NEW m \in Nat, NEW n \in Nat, m + n <= Len(s)
  PROVE  /\ SubSeq(s, m + 1, m + n) \in Seq(S)
         /\ Len(SubSeq(s, m + 1, m + n)) = n
         /\ \A i \in 1..n : SubSeq(s, m + 1, m + n)[i] = s[m + i]
<1>1. \A i \in 1..Len(s) : s[i] \in S
  OBVIOUS
<1>2. SubSeq(s, m + 1, m + n) = [i \in 1..n |-> s[m + i]]
  <2>1. SubSeq(s, m + 1, m + n) = [i \in 1..(1 + (m + n) - (m + 1)) |-> s[i + (m + 1) - 1]]
    OBVIOUS
  <2>2. 1 + (m + n) - (m + 1) = n /\ \A i \in 1..n : i + (m + 1) - 1 = m + i
    OBVIOUS
  <2> QED BY <2>1, <2>2
<1>3. [i \in 1..n |-> s[m + i]] \in [1..n -> S]
  BY <1>1
<1> QED BY <1>2, <1>3, FunctionIsSeq

(* The bytes that have gone out and the next n are a longer beginning.     *)
LEMMA LongerBeginning ==
  ASSUME NEW S, NEW s \in Seq(S), NEW m \in Nat, NEW n \in Nat, m + n <= Len(s)
  PROVE  /\ SubSeq(s, 1, m) \o SubSeq(s, m + 1, m + n) = SubSeq(s, 1, m + n)
         /\ SubSeq(s, 1, m) \in Seq(S) /\ Len(SubSeq(s, 1, m)) = m
<1> DEFINE a == SubSeq(s, 1, m)  b == SubSeq(s, m + 1, m + n)
           c == SubSeq(s, 1, m + n)
<1>0. 0 \in Nat /\ 0 + m = m /\ 0 + (m + n) = m + n /\ 0 + 1 = 1 /\ m + n \in Nat
      /\ m <= Len(s) /\ \A i \in Nat : 0 + i = i
  <2>1. Len(s) \in Nat
    OBVIOUS
  <2> QED BY <2>1
<1>1. a \in Seq(S) /\ Len(a) = m /\ \A i \in 1..m : a[i] = s[i]
  <2>1. /\ SubSeq(s, 0 + 1, 0 + m) \in Seq(S)
        /\ Len(SubSeq(s, 0 + 1, 0 + m)) = m
        /\ \A i \in 1..m : SubSeq(s, 0 + 1, 0 + m)[i] = s[0 + i]
    BY <1>0, NextPiece
  <2> QED BY <1>0, <2>1
<1>2. c \in Seq(S) /\ Len(c) = m + n /\ \A i \in 1..m + n : c[i] = s[i]
  <2>1. /\ SubSeq(s, 0 + 1, 0 + (m + n)) \in Seq(S)
        /\ Len(SubSeq(s, 0 + 1, 0 + (m + n))) = m + n
        /\ \A i \in 1..m + n : SubSeq(s, 0 + 1, 0 + (m + n))[i] = s[0 + i]
    BY <1>0, NextPiece
  <2> QED BY <1>0, <2>1
<1>3. b \in Seq(S) /\ Len(b) = n /\ \A i \in 1..n : b[i] = s[m + i]
  BY NextPiece
<1> HIDE DEF a, b, c
<1>4. /\ a \o b \in Seq(S) /\ Len(a \o b) = m + n
      /\ \A i \in 1..m + n : (a \o b)[i] = IF i <= m THEN a[i] ELSE b[i - m]
  BY <1>1, <1>3, ConcatProperties
<1>5. ASSUME NEW i \in 1..m + n  PROVE (a \o b)[i] = c[i]
  <2>1. CASE i <= m
    <3>1. i \in 1..m
      BY <2>1
    <3> QED BY <1>1, <1>2, <1>4, <2>1, <3>1
  <2>2. CASE ~(i <= m)
    <3>1. i - m \in 1..n /\ m + (i - m) = i
      BY <2>2
    <3> QED BY <1>2, <1>3, <1>4, <2>2, <3>1
  <2> QED BY <2>1, <2>2
<1>6. a \o b = c
  BY <1>2, <1>4, <1>5, SeqEqual
<1> QED BY <1>1, <1>6 DEF a, b, c

(* Queues of one and of two answers.                                       *)
LEMMA OneAnswer ==
  ASSUME NEW x
  PROVE  /\ Head(<<x>>) = x /\ Tail(<<x>>) = <<>> /\ Len(<<x>>) = 1
         /\ <<x>>[1] = x /\ <<x>> # <<>>
OBVIOUS

(* The same of a queue of two.                                             *)
LEMMA TwoAnswers ==
  ASSUME NEW x, NEW y
  PROVE  /\ Head(<<x, y>>) = x /\ Tail(<<x, y>>) = <<y>> /\ Len(<<x, y>>) = 2
         /\ <<x, y>>[1] = x /\ <<x, y>> # <<>> /\ <<x>> \o <<y>> = <<x, y>>
<1>1. Head(<<x, y>>) = x /\ Len(<<x, y>>) = 2 /\ <<x, y>>[1] = x /\ <<x, y>> # <<>>
  OBVIOUS
<1>2. Tail(<<x, y>>) = <<y>>
  OBVIOUS
<1>3. <<x>> \o <<y>> = <<x, y>>
  <2> DEFINE S == {x, y}  s == <<x>> \o <<y>>  t == <<x, y>>
  <2>1. <<x>> \in Seq(S) /\ <<y>> \in Seq(S) /\ t \in Seq(S)
    OBVIOUS
  <2>2. /\ s \in Seq(S) /\ Len(s) = Len(<<x>>) + Len(<<y>>)
        /\ \A i \in 1..Len(<<x>>) + Len(<<y>>) :
             s[i] = IF i <= Len(<<x>>) THEN <<x>>[i] ELSE <<y>>[i - Len(<<x>>)]
    BY <2>1, ConcatProperties
  <2>3. Len(<<x>>) = 1 /\ Len(<<y>>) = 1 /\ Len(t) = 2
    OBVIOUS
  <2>4. s[1] = x /\ s[2] = y /\ Len(s) = 2
    BY <2>2, <2>3
  <2>5. t[1] = x /\ t[2] = y
    OBVIOUS
  <2> HIDE DEF s, t, S
  <2>6. \A i \in 1..2 : s[i] = t[i]
    BY <2>4, <2>5
  <2>7. s = t
    BY <2>1, <2>2, <2>3, <2>4, <2>6, SeqEqual
  <2> QED BY <2>7 DEF s, t
<1> QED BY <1>1, <1>2, <1>3

(* Answers are told apart by their kind.                                   *)
LEMMA AnswerFields ==
  ASSUME NEW bytes, NEW ok
  PROVE  /\ DataAnswer(bytes).kind = "data" /\ DataAnswer(bytes).bytes = bytes
         /\ StatusAnswer(ok).kind = "status" /\ StatusAnswer(ok).ok = ok
BY DEF DataAnswer, StatusAnswer

-----------------------------------------------------------------------------
(* The steps of a command                                                  *)

(* The types of the command in progress.                                   *)
LEMMA CommandTypes ==
  ASSUME CommandInv
  PROVE  /\ command.buffer \in Seq(Byte) /\ Size \in Nat
         /\ \A i \in 1..Size : command.buffer[i] \in Byte
         /\ Start(command.block) \in Nat
         /\ Start(command.block) + Size <= DeviceEnd
         /\ moved \in Nat /\ moved <= Size
         /\ \A i \in 1..Size : Start(command.block) + i - 1 \in Positions
<1>1. command.buffer \in Seq(Byte) /\ command.block \in 0..LastBlock
      /\ moved <= Size /\ moved \in Nat
      /\ Start(command.block) + Size <= DeviceEnd
  BY DEF CommandInv, ScsiTypeOK
<1>2. Size \in Nat /\ \A i \in 1..Size : command.buffer[i] \in Byte
  BY <1>1, SeqIsFunction DEF Size
<1>3. Start(command.block) \in Nat
  BY <1>1, Numbers, BlocksAdd DEF Start
<1> DEFINE f == Start(command.block)  n == Size
<1>4. f \in Nat /\ n \in Nat /\ f + n <= DeviceEnd
  BY <1>1, <1>2, <1>3
<1> HIDE DEF f, n
<1>5. \A i \in 1..n : f + i - 1 \in 0..DeviceEnd - 1
  BY <1>4, Numbers
<1>6. Positions = 0..DeviceEnd - 1
  BY Sizes
<1> QED BY <1>1, <1>2, <1>3, <1>5, <1>6 DEF f, n

(* The bytes a command is about, as an answer to it.                       *)
LEMMA StoredBytes ==
  ASSUME CommandInv
  PROVE  /\ Stored(command) \in Seq(Byte) /\ Len(Stored(command)) = Size
         /\ \A i \in 1..Size :
              Stored(command)[i] = device[Start(command.block) + i - 1]
<1>1. Size \in Nat
      /\ \A i \in 1..Size : Start(command.block) + i - 1 \in Positions
  BY CommandTypes
<1>2. device \in [Positions -> Byte]
  BY DEF CommandInv, ScsiTypeOK
<1>3. Stored(command)
        = [i \in 1..Size |-> device[Start(command.block) + i - 1]]
  BY DEF Stored, Size
<1>4. [i \in 1..Size |-> device[Start(command.block) + i - 1]]
        \in [1..Size -> Byte]
  BY <1>1, <1>2
<1> QED BY <1>1, <1>3, <1>4, FunctionIsSeq

(* A buffer with n more bytes in it.                                       *)
LEMMA FilledBuffer ==
  ASSUME CommandInv, NEW n \in Nat, n <= Size - moved,
         NEW bytes \in Seq(Byte), Len(bytes) = n
  PROVE  /\ Filled(bytes) \in Seq(Byte) /\ Len(Filled(bytes)) = Size
         /\ \A i \in 1..moved : Filled(bytes)[i] = command.buffer[i]
         /\ \A i \in 1..n : Filled(bytes)[moved + i] = bytes[i]
<1>1. /\ Size \in Nat /\ moved \in Nat /\ moved <= Size
      /\ \A i \in 1..Size : command.buffer[i] \in Byte
  BY CommandTypes
<1>2. \A i \in 1..n : bytes[i] \in Byte
  BY SeqIsFunction
<1> DEFINE F == [i \in 1..Size |-> IF i \in moved + 1..moved + n
                                     THEN bytes[i - moved] ELSE command.buffer[i]]
<1>3. Filled(bytes) = F
  BY DEF Filled
<1>4. F \in [1..Size -> Byte]
  <2> SUFFICES ASSUME NEW i \in 1..Size
               PROVE  (IF i \in moved + 1..moved + n
                         THEN bytes[i - moved] ELSE command.buffer[i]) \in Byte
    OBVIOUS
  <2>1. i \in moved + 1..moved + n => i - moved \in 1..n
    BY <1>1
  <2> QED BY <2>1, <1>1, <1>2
<1>5. F \in Seq(Byte) /\ Len(F) = Size
  <2> HIDE DEF F
  <2> QED BY <1>1, <1>4, FunctionIsSeq
<1>6. ASSUME NEW i \in 1..moved  PROVE F[i] = command.buffer[i]
  <2>1. i \in 1..Size /\ i \notin moved + 1..moved + n
    BY <1>1
  <2> QED BY <2>1
<1>7. ASSUME NEW i \in 1..n  PROVE F[moved + i] = bytes[i]
  <2>1. /\ moved + i \in 1..Size /\ moved + i \in moved + 1..moved + n
        /\ (moved + i) - moved = i
    BY <1>1
  <2> QED BY <2>1
<1> HIDE DEF F
<1> QED BY <1>3, <1>5, <1>6, <1>7

(* What a transfer of data from the device does when there is something.   *)
DataCame(bytes, n) ==
    /\ n \in 1..Len(bytes) /\ n <= Size - moved
    /\ command' = [command EXCEPT !.buffer = Filled(SubSeq(bytes, 1, n))]
    /\ moved' = moved + n
    /\ step' = IF moved + n < Size THEN "data" ELSE "status"

(* Data from the device, or a status that is taken for data.               *)
LEMMA DataInMoves ==
  ASSUME CommandInv, DataIn, answers # <<>>
  PROVE  \E ok \in BOOLEAN : \E bytes \in Seq(Byte) : \E n \in Nat :
           /\ DataCame(bytes, n)
           /\ \/ answers = <<StatusAnswer(ok)>> /\ answers' = <<>>
              \/ /\ answers = <<DataAnswer(bytes), StatusAnswer(ok)>>
                 /\ answers' =
                      IF n = Len(bytes) THEN <<StatusAnswer(ok)>>
                      ELSE <<DataAnswer(SubSeq(bytes, n + 1, Len(bytes))),
                             StatusAnswer(ok)>>
<1> DEFINE a == Head(answers)
           bytes == IF a.kind = "data" THEN a.bytes ELSE <<StatusByte>>
<1>1. PICK n \in 1..Len(bytes) :
        /\ n <= Size - moved
        /\ command' = [command EXCEPT !.buffer = Filled(SubSeq(bytes, 1, n))]
        /\ answers' = IF n = Len(bytes) THEN Tail(answers)
                      ELSE <<DataAnswer(SubSeq(bytes, n + 1, Len(bytes)))>>
                             \o Tail(answers)
        /\ Moved(n)
  BY DEF DataIn
<1>2. CASE \E ok \in BOOLEAN : answers = <<StatusAnswer(ok)>>
  <2>1. PICK ok \in BOOLEAN : answers = <<StatusAnswer(ok)>>
    BY <1>2
  <2>2. a = StatusAnswer(ok) /\ Tail(answers) = <<>>
    BY <2>1, OneAnswer
  <2>3. bytes = <<StatusByte>>
    BY <2>2, AnswerFields
  <2>4. bytes \in Seq(Byte) /\ Len(bytes) = 1
    <3>1. StatusByte \in Byte
      BY DEF Byte
    <3>2. <<StatusByte>> \in Seq(Byte) /\ Len(<<StatusByte>>) = 1
      BY <3>1
    <3> HIDE DEF bytes
    <3> QED BY <2>3, <3>2
  <2> HIDE DEF bytes
  <2>5. n \in Nat /\ n = Len(bytes)
    BY <2>4
  <2> QED BY <1>1, <2>1, <2>2, <2>4, <2>5 DEF DataCame, Moved
<1>3. CASE \E ok \in BOOLEAN :
             /\ answers = <<DataAnswer(answers[1].bytes), StatusAnswer(ok)>>
             /\ answers[1].bytes \in Seq(Byte)
  <2>1. PICK ok \in BOOLEAN :
             /\ answers = <<DataAnswer(answers[1].bytes), StatusAnswer(ok)>>
             /\ answers[1].bytes \in Seq(Byte)
    BY <1>3
  <2> DEFINE bs == answers[1].bytes
  <2>2. bs \in Seq(Byte)
    BY <2>1
  <2>3. answers = <<DataAnswer(bs), StatusAnswer(ok)>>
    BY <2>1
  <2> HIDE DEF bs
  <2>4. a = DataAnswer(bs) /\ Tail(answers) = <<StatusAnswer(ok)>>
    BY <2>3, TwoAnswers
  <2>5. bytes = bs
    BY <2>4, AnswerFields
  <2> HIDE DEF bytes
  <2>6. n \in Nat /\ n \in 1..Len(bs)
    BY <2>5
  <2>7. DataCame(bs, n)
    BY <1>1, <2>5 DEF DataCame, Moved
  <2>8. answers' = IF n = Len(bs) THEN <<StatusAnswer(ok)>>
                   ELSE <<DataAnswer(SubSeq(bs, n + 1, Len(bs))),
                          StatusAnswer(ok)>>
    <3>1. <<DataAnswer(SubSeq(bs, n + 1, Len(bs)))>> \o <<StatusAnswer(ok)>>
            = <<DataAnswer(SubSeq(bs, n + 1, Len(bs))), StatusAnswer(ok)>>
      BY TwoAnswers
    <3> QED BY <1>1, <2>4, <2>5, <3>1
  <2> QED BY <2>2, <2>3, <2>6, <2>7, <2>8
<1> QED BY <1>2, <1>3 DEF CommandInv, AnswersOK

(* A step of a command leaves alone which command it is, and all but a     *)
(* transfer from the device leaves the buffer alone.                       *)
SameCommand ==
    /\ command'.dir = command.dir /\ command'.block = command.block
    /\ Len(command'.buffer) = Size
    /\ command.dir = "out" => command' = command
    /\ step # "none" /\ step' # "none"

(* The fields of what a device waits for.                                  *)
LEMMA WaitingFields ==
  ASSUME NEW b, NEW n, NEW bs
  PROVE  /\ Waiting(b, n, bs).block = b /\ Waiting(b, n, bs).size = n
         /\ Waiting(b, n, bs).bytes = bs
         /\ \A x : [Waiting(b, n, bs) EXCEPT !.bytes = x] = Waiting(b, n, x)
BY DEF Waiting

(* A device waits for one write at most.                                   *)
LEMMA OneWaits ==
  ASSUME TakingOK
  PROVE  /\ Len(taking) <= 1
         /\ \A k \in DOMAIN taking :
              /\ taking[k].block \in 0..LastBlock /\ taking[k].size \in Nat
              /\ taking[k].bytes \in Seq(Byte)
              /\ Len(taking[k].bytes) < taking[k].size
<1>1. CASE taking = <<>>
  BY <1>1
<1>2. CASE \E b, n, bs : Waits(b, n, bs)
  <2>1. PICK b, n, bs : Waits(b, n, bs)
    BY <1>2
  <2> DEFINE w == Waiting(b, n, bs)
  <2>2. /\ w.block \in 0..LastBlock /\ w.size \in Nat /\ w.bytes \in Seq(Byte)
        /\ Len(w.bytes) < w.size
    BY <2>1, WaitingFields DEF Waits
  <2>3. taking = <<w>>
    BY <2>1 DEF Waits
  <2> HIDE DEF w
  <2> QED BY <2>2, <2>3
<1> QED BY <1>1, <1>2 DEF TakingOK

(* What is stored when a write is carried out.                             *)
LEMMA StoredBytesOf ==
  ASSUME CommandInv, NEW b \in 0..LastBlock, NEW bytes \in Seq(Byte),
         Start(b) + Len(bytes) <= DeviceEnd
  PROVE  LET D == StoredWith(b, bytes)
         IN  /\ D \in [Positions -> Byte]
             /\ \A p \in Positions : D[p] # device[p] =>
                  /\ p \in Start(b)..Start(b) + Len(bytes) - 1
                  /\ D[p] = bytes[p - Start(b) + 1]
             /\ \A i \in 1..Len(bytes) : D[Start(b) + i - 1] = bytes[i]
<1> DEFINE first == Start(b)  n == Len(bytes)
           D == [p \in Positions |->
                   IF p \in first..first + n - 1
                     THEN bytes[p - first + 1] ELSE device[p]]
<1>1. StoredWith(b, bytes) = D
  BY DEF StoredWith
<1>2. /\ n \in Nat /\ first \in Nat /\ first + n <= DeviceEnd
      /\ \A i \in 1..n : bytes[i] \in Byte
  BY SeqIsFunction, Numbers, BlocksAdd DEF Start
<1>3. device \in [Positions -> Byte] /\ Positions = 0..DeviceEnd - 1
  BY Sizes DEF CommandInv, ScsiTypeOK
<1> HIDE DEF first, n
<1>4. D \in [Positions -> Byte]
  <2> SUFFICES ASSUME NEW p \in Positions
               PROVE  (IF p \in first..first + n - 1
                         THEN bytes[p - first + 1] ELSE device[p]) \in Byte
    OBVIOUS
  <2>1. p \in first..first + n - 1 => p - first + 1 \in 1..n
    BY <1>2
  <2> QED BY <2>1, <1>2, <1>3
<1>5. ASSUME NEW p \in Positions, D[p] # device[p]
      PROVE  p \in first..first + n - 1 /\ D[p] = bytes[p - first + 1]
  BY <1>5
<1>6. ASSUME NEW i \in 1..n  PROVE D[first + i - 1] = bytes[i]
  <2>1. /\ first + i - 1 \in Positions
        /\ first + i - 1 \in first..first + n - 1
        /\ (first + i - 1) - first + 1 = i
    BY <1>2, <1>3, Numbers
  <2> QED BY <2>1
<1> HIDE DEF D
<1> QED BY <1>1, <1>4, <1>5, <1>6 DEF first, n

(* How many bytes a waiting device expects.                                *)
LEMMA ExpectedBytes ==
  ASSUME NEW b, NEW n, NEW bs, Waits(b, n, bs)
  PROVE  /\ Expected = n - Len(bs) /\ Expected \in Nat /\ Expected > 0
         /\ Head(taking) = Waiting(b, n, bs)
<1>1. Head(taking) = Waiting(b, n, bs)
  BY OneAnswer DEF Waits
<1>2. n \in Nat /\ Len(bs) \in Nat /\ Len(bs) < n
  BY SeqIsFunction DEF Waits
<1> QED BY <1>1, <1>2, WaitingFields DEF Expected

(* A command is a byte of it.                                              *)
LEMMA CommandAsData ==
  ASSUME CommandInv, taking # <<>>
  PROVE  <<CommandByte>> \in Seq(Byte) /\ Len(<<CommandByte>>) <= Expected
<1>1. <<CommandByte>> \in Seq(Byte) /\ Len(<<CommandByte>>) = 1
  BY DEF Byte
<1>2. PICK b, n, bs : Waits(b, n, bs)
  BY DEF CommandInv, TakingOK
<1>3. Expected \in Nat /\ Expected > 0
  BY <1>2, ExpectedBytes
<1> QED BY <1>1, <1>3

(* A waiting device takes bytes, and carries the write out with the last.  *)
TakesMore(b, n, all) ==
    taking' = <<Waiting(b, n, all)>> /\ UNCHANGED <<device, answers>>
TakesLast(b, all) ==
    /\ taking' = <<>>
    /\ \E ok \in BOOLEAN :
         /\ answers' = <<StatusAnswer(ok)>>
         /\ device' = IF ok THEN StoredWith(b, all) ELSE device

(* One of the two happens.                                                 *)
LEMMA Takes ==
  ASSUME CommandInv, NEW b, NEW n, NEW bs, Waits(b, n, bs),
         NEW bytes \in Seq(Byte), Len(bytes) <= Expected, Take(bytes)
  PROVE  /\ bs \o bytes \in Seq(Byte) /\ Len(bs \o bytes) = Len(bs) + Len(bytes)
         /\ Len(bs \o bytes) <= n
         /\ \/ Len(bs \o bytes) < n /\ TakesMore(b, n, bs \o bytes)
            \/ Len(bs \o bytes) = n /\ TakesLast(b, bs \o bytes)
<1> DEFINE all == bs \o bytes
<1>1. all \in Seq(Byte) /\ Len(all) = Len(bs) + Len(bytes)
  BY BytesAppended DEF Waits
<1>2. /\ b \in 0..LastBlock /\ n \in Nat /\ bs \in Seq(Byte) /\ Len(bs) \in Nat
      /\ answers = <<>> /\ Start(b) + n <= DeviceEnd /\ Len(bytes) \in Nat
  BY SeqIsFunction DEF Waits
<1>3. /\ Head(taking).bytes = bs /\ Head(taking).block = b
      /\ [Head(taking) EXCEPT !.bytes = all] = Waiting(b, n, all)
  <2>1. Head(taking) = Waiting(b, n, bs)
    BY ExpectedBytes
  <2> HIDE DEF all
  <2> QED BY <2>1, WaitingFields
<1>4. Expected = n - Len(bs)
  BY ExpectedBytes
<1> HIDE DEF all
<1>5. CASE Len(bytes) < Expected
  <2>1. taking' = <<Waiting(b, n, all)>> /\ UNCHANGED <<device, answers>>
    BY <1>3, <1>5 DEF Take, all
  <2>2. Len(all) < n
    BY <1>1, <1>2, <1>4, <1>5
  <2>3. TakesMore(b, n, all)
    BY <2>1 DEF TakesMore
  <2> QED BY <1>1, <1>2, <2>2, <2>3 DEF all
<1>6. CASE ~(Len(bytes) < Expected)
  <2>1. TakesLast(b, all)
    BY <1>3, <1>6 DEF Take, TakesLast, all
  <2>2. Len(all) = n
    BY <1>1, <1>2, <1>4, <1>6
  <2> QED BY <1>1, <1>2, <2>1, <2>2 DEF all
<1> QED BY <1>5, <1>6

(* The types of the device when it has taken bytes.                        *)
LEMMA TakeTypes ==
  ASSUME CommandInv, taking # <<>>, NEW bytes \in Seq(Byte),
         Len(bytes) <= Expected, Take(bytes)
  PROVE  /\ device' \in [Positions -> Byte] /\ TakingOK'
         /\ AnswersOK' /\ Len(answers') <= 2
<1>1. PICK b, n, bs : Waits(b, n, bs)
  BY DEF CommandInv, TakingOK
<1> DEFINE all == bs \o bytes
<1>2. /\ all \in Seq(Byte) /\ Len(all) <= n
      /\ \/ Len(all) < n /\ TakesMore(b, n, all)
         \/ Len(all) = n /\ TakesLast(b, all)
  BY <1>1, Takes
<1>3. device \in [Positions -> Byte]
  BY DEF CommandInv, ScsiTypeOK
<1> HIDE DEF all
<1>4. CASE Len(all) < n /\ TakesMore(b, n, all)
  <2>1. answers' = <<>> /\ device' = device
    BY <1>1, <1>4 DEF TakesMore, Waits
  <2>2. Waits(b, n, all)'
    BY <1>1, <1>2, <1>4, <2>1 DEF TakesMore, Waits, Start, DeviceEnd
  <2>3. TakingOK'
    BY <2>2 DEF TakingOK
  <2> QED BY <1>3, <2>1, <2>3 DEF AnswersOK
<1>5. CASE Len(all) = n /\ TakesLast(b, all)
  <2>1. PICK ok \in BOOLEAN :
          /\ answers' = <<StatusAnswer(ok)>>
          /\ device' = IF ok THEN StoredWith(b, all) ELSE device
    BY <1>5 DEF TakesLast
  <2>2. AnswersOK' /\ Len(answers') <= 2
    BY <2>1, OneAnswer DEF AnswersOK
  <2>3. StoredWith(b, all) \in [Positions -> Byte]
    BY <1>1, <1>2, <1>5, StoredBytesOf DEF Waits
  <2>4. TakingOK'
    BY <1>5 DEF TakesLast, TakingOK
  <2> QED BY <1>3, <2>1, <2>2, <2>3, <2>4
<1> QED BY <1>2, <1>4, <1>5

(* The bytes of the buffer that a transfer takes.                          *)
LEMMA TakenBytes ==
  ASSUME CommandInv, taking # <<>>, NEW n \in Taken
  PROVE  /\ n \in Nat /\ n <= Size - moved /\ moved + n <= Size
         /\ NextBytes(n) \in Seq(Byte) /\ Len(NextBytes(n)) = n
         /\ Len(NextBytes(n)) <= Expected
<1>1. /\ command.buffer \in Seq(Byte) /\ moved \in Nat /\ Size \in Nat
      /\ moved <= Size
  BY CommandTypes
<1>2. n \in 0..Size - moved /\ n <= Expected
  BY DEF Taken
<1>3. n \in Nat /\ moved + n <= Size /\ n <= Size - moved
  BY <1>1, <1>2
<1>4. NextBytes(n) \in Seq(Byte) /\ Len(NextBytes(n)) = n
  BY <1>1, <1>3, NextPiece DEF NextBytes, Size
<1> QED BY <1>2, <1>3, <1>4

(* A step that leaves the command alone keeps the types of the transport   *)
(* if it keeps those of the device.                                        *)
LEMMA SameCommandTypes ==
  ASSUME CommandInv, UNCHANGED <<command, csw>>, moved' \in Nat, moved' <= Size,
         step # "none",
         step' \in {"command", "data", "status", "done", "threw"},
         late' \in 0..MaxLate, device' \in [Positions -> Byte],
         AnswersOK', Len(answers') <= 2, TakingOK'
  PROVE  CommandInv' /\ SameCommand
<1>1. /\ Len(taking') <= 1
      /\ \A k \in DOMAIN taking' :
           /\ taking'[k].block \in 0..LastBlock /\ taking'[k].size \in Nat
           /\ taking'[k].bytes \in Seq(Byte)
           /\ Len(taking'[k].bytes) < taking'[k].size
  <2>1. CASE taking' = <<>>
    BY <2>1
  <2>2. CASE \E b, n, bs : Waits(b, n, bs)'
    <3>1. PICK b, n, bs : Waits(b, n, bs)'
      BY <2>2
    <3> DEFINE w == Waiting(b, n, bs)
    <3>2. /\ w.block \in 0..LastBlock /\ w.size \in Nat /\ w.bytes \in Seq(Byte)
          /\ Len(w.bytes) < w.size
      BY <3>1, WaitingFields DEF Waits
    <3>3. taking' = <<w>>
      BY <3>1 DEF Waits, Waiting
    <3> HIDE DEF w
    <3> QED BY <3>2, <3>3
  <2> QED BY <2>1, <2>2 DEF TakingOK
<1>2. ScsiTypeOK'
  BY <1>1 DEF CommandInv, ScsiTypeOK, Size
<1>3. SameCommand
  BY DEF SameCommand, Size
<1>4. /\ command' = [dir |-> command'.dir, block |-> command'.block,
                     buffer |-> command'.buffer]
      /\ (Start(command.block) + Size <= DeviceEnd)'
      /\ Size' > 0
  BY DEF CommandInv, Start, Size, DeviceEnd
<1> QED BY <1>2, <1>3, <1>4 DEF CommandInv

(* A transfer that fails is counted.                                       *)
LEMMA LateTypes ==
  ASSUME CommandInv, Late
  PROVE  late' \in 0..MaxLate /\ late' # late
BY SizeAssumption DEF CommandInv, ScsiTypeOK, Late

(* The command goes out.                                                   *)
LEMMA SendCommandStep ==
  ASSUME CommandInv, SendCommand
  PROVE  CommandInv' /\ SameCommand
<1>1. /\ UNCHANGED <<command, moved, csw>>
      /\ step = "command" /\ step' = "data"
  BY DEF SendCommand
<1>2. /\ moved' \in Nat /\ moved' <= Size /\ late \in 0..MaxLate
      /\ device \in [Positions -> Byte]
  BY <1>1 DEF CommandInv, ScsiTypeOK
<1>3. CASE UNCHANGED <<device, taking, answers>> /\ late' \in 0..MaxLate
  <2>1. AnswersOK' /\ Len(answers') <= 2 /\ TakingOK' /\ device' = device
    BY <1>3 DEF CommandInv, ScsiTypeOK, AnswersOK, TakingOK, Waits, Start, DeviceEnd
  <2> QED BY <1>1, <1>2, <1>3, <2>1, SameCommandTypes
<1>4. CASE taking # <<>> /\ Take(<<CommandByte>>) /\ UNCHANGED late
  <2>3. <<CommandByte>> \in Seq(Byte) /\ Len(<<CommandByte>>) <= Expected
    BY <1>4, CommandAsData
  <2>4. /\ device' \in [Positions -> Byte] /\ TakingOK'
        /\ AnswersOK' /\ Len(answers') <= 2
    BY <1>4, <2>3, TakeTypes
  <2> QED BY <1>1, <1>2, <1>4, <2>4, SameCommandTypes
<1>5. CASE Ready /\ Accept /\ UNCHANGED <<device, late>>
  <2>1. CASE command.dir = "out"
    <3>1. /\ taking' = <<Waiting(command.block, Size, <<>>)>> /\ answers' = <<>>
      BY <1>5, <2>1 DEF Accept, Ready, Waiting
    <3>2. Waits(command.block, Size, <<>>)'
      <4>1. /\ command.block \in 0..LastBlock /\ Size \in Nat /\ Size > 0
            /\ Start(command.block) + Size <= DeviceEnd
        BY <1>1, CommandTypes DEF CommandInv, ScsiTypeOK
      <4>2. <<>> \in Seq(Byte) /\ Len(<<>>) = 0
        OBVIOUS
      <4> QED BY <1>1, <3>1, <4>1, <4>2 DEF Waits, Size, Start, DeviceEnd
    <3>3. AnswersOK' /\ Len(answers') <= 2 /\ TakingOK' /\ device' = device
      BY <1>5, <3>1, <3>2 DEF AnswersOK, TakingOK
    <3> QED BY <1>1, <1>2, <1>5, <3>3, SameCommandTypes
  <2>2. CASE command.dir # "out"
    <3>1. PICK ok \in BOOLEAN :
            answers' = <<DataAnswer(IF ok THEN Stored(command)
                                    ELSE [i \in 1..Size |-> Junk]),
                         StatusAnswer(ok)>>
      BY <1>5, <2>2 DEF Accept
    <3> DEFINE bs == IF ok THEN Stored(command) ELSE [i \in 1..Size |-> Junk]
    <3>2. bs \in Seq(Byte)
      <4>1. Size \in Nat
        BY CommandTypes
      <4>2. [i \in 1..Size |-> Junk] \in [1..Size -> Byte]
        BY DEF Byte
      <4>3. [i \in 1..Size |-> Junk] \in Seq(Byte)
        BY <4>1, <4>2, FunctionIsSeq
      <4> QED BY <4>3, StoredBytes
    <3>3. answers' = <<DataAnswer(bs), StatusAnswer(ok)>>
      BY <3>1
    <3> HIDE DEF bs
    <3>4. Len(answers') = 2 /\ answers'[1].bytes = bs
      BY <3>3, TwoAnswers, AnswerFields
    <3>5. AnswersOK'
      BY <3>2, <3>3, <3>4 DEF AnswersOK
    <3>6. TakingOK' /\ device' = device
      BY <1>5, <2>2 DEF Accept, Ready, TakingOK
    <3> QED BY <1>1, <1>2, <1>5, <3>4, <3>5, <3>6, SameCommandTypes
  <2> QED BY <2>1, <2>2
<1> QED BY <1>2, <1>3, <1>4, <1>5, LateTypes DEF SendCommand

(* The command after a transfer from the device.                           *)
LEMMA DataCameCommand ==
  ASSUME CommandInv, NEW bytes \in Seq(Byte), NEW n \in Nat, DataCame(bytes, n)
  PROVE  /\ command' = [dir |-> command.dir, block |-> command.block,
                        buffer |-> command'.buffer]
         /\ command'.dir = command.dir /\ command'.block = command.block
         /\ command'.buffer \in Seq(Byte) /\ Len(command'.buffer) = Size
         /\ moved' \in Nat /\ moved' <= Size /\ moved' = moved + n
         /\ \A i \in 1..moved : command'.buffer[i] = command.buffer[i]
         /\ \A i \in 1..n : command'.buffer[moved + i] = bytes[i]
         /\ step' = IF moved + n < Size THEN "data" ELSE "status"
<1> DEFINE bs == SubSeq(bytes, 1, n)
<1>1. /\ bs \in Seq(Byte) /\ Len(bs) = n
      /\ \A i \in 1..n : bs[i] = bytes[i]
  BY CutBytes DEF DataCame
<1>2. /\ n <= Size - moved /\ moved' = moved + n
      /\ command' = [command EXCEPT !.buffer = Filled(bs)]
      /\ step' = IF moved + n < Size THEN "data" ELSE "status"
  BY DEF DataCame
<1> HIDE DEF bs
<1>3. /\ Filled(bs) \in Seq(Byte) /\ Len(Filled(bs)) = Size
      /\ \A i \in 1..moved : Filled(bs)[i] = command.buffer[i]
      /\ \A i \in 1..n : Filled(bs)[moved + i] = bs[i]
  BY <1>1, <1>2, FilledBuffer
<1>4. command = [dir |-> command.dir, block |-> command.block,
                 buffer |-> command.buffer]
  BY DEF CommandInv
<1>5. command' = [dir |-> command.dir, block |-> command.block,
                  buffer |-> Filled(bs)]
  BY <1>2, <1>4
<1>6. /\ command'.dir = command.dir /\ command'.block = command.block
      /\ command'.buffer = Filled(bs)
  BY <1>5
<1>7. moved' \in Nat /\ moved' <= Size
  BY <1>2, CommandTypes
<1> QED BY <1>1, <1>2, <1>3, <1>5, <1>6, <1>7

(* Data comes in.                                                          *)
LEMMA DataInStep ==
  ASSUME CommandInv, DataIn
  PROVE  CommandInv' /\ SameCommand
<1>1. /\ UNCHANGED <<device, taking, csw, late>>
      /\ step = "data" /\ command.dir = "in"
  BY DEF DataIn
<1>0. TakingOK' \/ answers # <<>>
  BY <1>1 DEF DataIn, CommandInv, TakingOK, Waits, Start, DeviceEnd
<1>00. answers # <<>> => taking = <<>>
  BY DEF CommandInv, TakingOK, Waits
<1>2. CASE answers = <<>>
  <2>1. /\ UNCHANGED <<device, taking, csw, late, answers, command, moved>>
        /\ step' = "threw"
    BY <1>1, <1>2 DEF DataIn, Throw
  <2>2. SameCommand
    BY <1>1, <2>1 DEF SameCommand, Size
  <2> QED BY <1>0, <1>1, <1>2, <2>1, <2>2
          DEF CommandInv, ScsiTypeOK, AnswersOK, Start, Size, DeviceEnd
<1>3. CASE answers # <<>>
  <2>1. PICK ok \in BOOLEAN, bytes \in Seq(Byte), n \in Nat :
           /\ DataCame(bytes, n)
           /\ \/ answers = <<StatusAnswer(ok)>> /\ answers' = <<>>
              \/ /\ answers = <<DataAnswer(bytes), StatusAnswer(ok)>>
                 /\ answers' =
                      IF n = Len(bytes) THEN <<StatusAnswer(ok)>>
                      ELSE <<DataAnswer(SubSeq(bytes, n + 1, Len(bytes))),
                             StatusAnswer(ok)>>
    BY <1>3, DataInMoves
  <2>2. /\ command' = [dir |-> command.dir, block |-> command.block,
                        buffer |-> command'.buffer]
        /\ command'.dir = command.dir /\ command'.block = command.block
        /\ command'.buffer \in Seq(Byte) /\ Len(command'.buffer) = Size
        /\ moved' \in Nat /\ moved' <= Size
        /\ step' \in {"data", "status"}
    BY <2>1, DataCameCommand
  <2>3. AnswersOK' /\ Len(answers') <= 2
    <3> DEFINE bs == SubSeq(bytes, n + 1, Len(bytes))
    <3>1. bs \in Seq(Byte)
      <4>1. n \in 1..Len(bytes)
        BY <2>1 DEF DataCame
      <4> QED BY <4>1, CutBytes
    <3> HIDE DEF bs
    <3>2. \/ answers' = <<>> \/ answers' = <<StatusAnswer(ok)>>
          \/ answers' = <<DataAnswer(bs), StatusAnswer(ok)>>
      BY <2>1 DEF bs
    <3>3. CASE answers' = <<>>
      BY <3>3 DEF AnswersOK
    <3>5. CASE answers' = <<StatusAnswer(ok)>>
      BY <3>5, OneAnswer DEF AnswersOK
    <3>4. CASE answers' = <<DataAnswer(bs), StatusAnswer(ok)>>
      <4>1. Len(answers') = 2 /\ answers'[1].bytes = bs
        BY <3>4, TwoAnswers, AnswerFields
      <4> QED BY <3>1, <3>4, <4>1 DEF AnswersOK
    <3> QED BY <3>2, <3>3, <3>4, <3>5
  <2>4. SameCommand
    BY <1>1, <2>2 DEF SameCommand
  <2>5. ScsiTypeOK'
    BY <1>1, <2>2, <2>3 DEF CommandInv, ScsiTypeOK, Size
  <2>6. (Start(command.block) + Size <= DeviceEnd)' /\ Size' > 0
    BY <1>1, <2>2 DEF CommandInv, Start, Size, DeviceEnd
  <2>7. TakingOK'
    BY <1>00, <1>1, <1>3 DEF TakingOK
  <2> QED BY <2>2, <2>3, <2>4, <2>5, <2>6, <2>7 DEF CommandInv
<1> QED BY <1>2, <1>3

(* Data goes out, or the transfer of it fails.                             *)
LEMMA DataOutMoves ==
  ASSUME CommandInv, DataOut \/ DataOutFails
  PROVE  /\ step = "data" /\ command.dir = "out" /\ UNCHANGED <<command, csw>>
         /\ \/ /\ taking = <<>> /\ step' = "threw"
               /\ UNCHANGED <<device, taking, answers, moved, late>>
            \/ /\ taking # <<>>
               /\ \E n \in Taken :
                    /\ Take(NextBytes(n))
                    /\ \/ Moved(n) /\ UNCHANGED late
                       \/ UNCHANGED moved /\ step' = "threw" /\ Late
<1>1. step = "data" /\ command.dir = "out" /\ UNCHANGED <<command, csw>>
  BY DEF DataOut, DataOutFails
<1>2. CASE DataOut /\ taking = <<>>
  BY <1>1, <1>2 DEF DataOut, Throw
<1>3. CASE DataOut /\ taking # <<>>
  BY <1>1, <1>3 DEF DataOut
<1>4. CASE DataOutFails
  BY <1>1, <1>4 DEF DataOutFails, Throw
<1> QED BY <1>2, <1>3, <1>4

(* Types while data goes out.                                              *)
LEMMA DataOutStep ==
  ASSUME CommandInv, DataOut \/ DataOutFails
  PROVE  CommandInv' /\ SameCommand
<1>1. step = "data" /\ UNCHANGED <<command, csw>>
  BY DataOutMoves
<1>2. /\ moved \in Nat /\ moved <= Size /\ Size \in Nat /\ late \in 0..MaxLate
      /\ device \in [Positions -> Byte]
  BY CommandTypes DEF CommandInv, ScsiTypeOK
<1>3. CASE /\ taking = <<>> /\ step' = "threw"
           /\ UNCHANGED <<device, taking, answers, moved, late>>
  <2>1. /\ AnswersOK' /\ Len(answers') <= 2 /\ TakingOK' /\ device' = device
        /\ moved' = moved /\ late' = late
    BY <1>3 DEF CommandInv, ScsiTypeOK, AnswersOK, TakingOK
  <2> QED BY <1>1, <1>2, <1>3, <2>1, SameCommandTypes
<1>4. ASSUME taking # <<>>, NEW n \in Taken, Take(NextBytes(n)),
             \/ Moved(n) /\ UNCHANGED late
             \/ UNCHANGED moved /\ step' = "threw" /\ Late
      PROVE  CommandInv' /\ SameCommand
  <2>1. /\ n \in Nat /\ moved + n <= Size
        /\ NextBytes(n) \in Seq(Byte) /\ Len(NextBytes(n)) <= Expected
    BY <1>4, TakenBytes
  <2>2. /\ device' \in [Positions -> Byte] /\ TakingOK'
        /\ AnswersOK' /\ Len(answers') <= 2
    BY <1>4, <2>1, TakeTypes
  <2>3. /\ moved' \in Nat /\ moved' <= Size /\ late' \in 0..MaxLate
        /\ step' \in {"data", "status", "threw"}
    BY <1>2, <1>4, <2>1, LateTypes DEF Moved
  <2> QED BY <1>1, <2>2, <2>3, SameCommandTypes
<1> QED BY <1>3, <1>4, DataOutMoves

(* A transfer times out.                                                   *)
LEMMA DataLateStep ==
  ASSUME CommandInv, DataLate
  PROVE  CommandInv' /\ SameCommand
<1>1. /\ step = "data" /\ step' = "threw" /\ Late
      /\ UNCHANGED <<device, taking, answers, command, moved, csw>>
  BY DEF DataLate, Throw
<1>2. /\ moved' \in Nat /\ moved' <= Size /\ device' \in [Positions -> Byte]
      /\ AnswersOK' /\ Len(answers') <= 2 /\ TakingOK'
  BY <1>1 DEF CommandInv, ScsiTypeOK, AnswersOK, TakingOK, Waits, Start, DeviceEnd
<1> QED BY <1>1, <1>2, LateTypes, SameCommandTypes

(* The status comes, or does not.                                          *)
LEMMA ReadStatusStep ==
  ASSUME CommandInv, ReadStatus
  PROVE  CommandInv' /\ SameCommand
<1>1. /\ step = "status" /\ step' = "done"
      /\ UNCHANGED <<device, taking, command, moved>>
  BY DEF ReadStatus
<1>2. SameCommand
  BY <1>1 DEF SameCommand, Size
<1>3. \/ /\ StatusComes /\ csw' = Head(answers).ok /\ answers' = Tail(answers)
         /\ UNCHANGED late
      \/ /\ IF StatusComes THEN Late ELSE UNCHANGED late
         /\ UNCHANGED <<csw, answers>>
  BY DEF ReadStatus
<1>4. late' \in 0..MaxLate
  BY <1>3, SizeAssumption DEF CommandInv, ScsiTypeOK, Late
<1>5. csw' \in BOOLEAN /\ AnswersOK' /\ Len(answers') <= 2
  <2>1. CASE UNCHANGED <<csw, answers>>
    BY <2>1 DEF CommandInv, ScsiTypeOK, AnswersOK
  <2>2. CASE StatusComes /\ csw' = Head(answers).ok /\ answers' = Tail(answers)
    <3>1. \E ok \in BOOLEAN : answers = <<StatusAnswer(ok)>>
      <4>1. answers # <<>> /\ Head(answers).kind = "status"
        BY <2>2 DEF StatusComes
      <4>2. ASSUME NEW bytes, NEW ok,
                   answers = <<DataAnswer(bytes), StatusAnswer(ok)>>
            PROVE  FALSE
        BY <4>1, <4>2, TwoAnswers, AnswerFields
      <4> QED BY <4>1, <4>2 DEF CommandInv, AnswersOK
    <3>2. PICK ok \in BOOLEAN : answers = <<StatusAnswer(ok)>>
      BY <3>1
    <3>3. Head(answers).ok = ok /\ Tail(answers) = <<>>
      BY <3>2, OneAnswer, AnswerFields
    <3> QED BY <2>2, <3>3 DEF AnswersOK
  <2> QED BY <1>3, <2>1, <2>2
<1>6. TakingOK'
  <2>1. taking # <<>> => answers' = <<>>
    BY <1>3 DEF CommandInv, TakingOK, Waits, StatusComes
  <2> QED BY <1>1, <2>1 DEF CommandInv, TakingOK, Waits, Start, DeviceEnd
<1> QED BY <1>1, <1>2, <1>4, <1>5, <1>6
        DEF CommandInv, ScsiTypeOK, Start, Size, DeviceEnd

(* Every step of a command.                                                *)
LEMMA TransferStep ==
  ASSUME CommandInv, Transfer
  PROVE  CommandInv' /\ SameCommand
BY SendCommandStep, DataInStep, DataOutStep, DataLateStep, ReadStatusStep
   DEF Transfer

-----------------------------------------------------------------------------
(* The commands a call issues                                              *)

(* A command that is issued for blocks of the device.                      *)
LEMMA IssuedCommand ==
  ASSUME CommandInv, NEW dir \in {"in", "out"},
         NEW block \in 0..LastBlock, NEW buffer \in Seq(Byte), Len(buffer) > 0,
         Len(buffer) % BlockSize = 0, Start(block) + Len(buffer) <= DeviceEnd,
         Issue(dir, block, buffer)
  PROVE  /\ CommandInv'
         /\ command'.dir = dir /\ command'.block = block
         /\ command'.buffer = buffer
         /\ moved' = 0 /\ step' = "command"
         /\ UNCHANGED <<device, taking, answers, csw>>
<1>1. /\ command' = [dir |-> dir, block |-> block, buffer |-> buffer]
      /\ moved' = 0 /\ step' = "command"
      /\ UNCHANGED <<device, taking, answers, csw, late>>
  BY DEF Issue
<1>2. command'.dir = dir /\ command'.block = block /\ command'.buffer = buffer
  BY <1>1
<1>3. TakingOK'
  BY <1>1 DEF CommandInv, TakingOK, Waits, Start, DeviceEnd
<1>4. moved' \in Nat /\ moved' <= Len(buffer)
  BY <1>1, SeqIsFunction
<1>5. AnswersOK' /\ Len(answers') <= 2
  BY <1>1 DEF CommandInv, ScsiTypeOK, AnswersOK
<1>6. ScsiTypeOK'
  BY <1>1, <1>2, <1>3, <1>4, <1>5 DEF CommandInv, ScsiTypeOK, Size
<1>7. (Start(command.block) + Size <= DeviceEnd)' /\ Size' > 0
  BY <1>2 DEF Start, Size, DeviceEnd
<1> QED BY <1>1, <1>2, <1>3, <1>4, <1>5, <1>6, <1>7 DEF CommandInv

(* A buffer that nothing was written to.                                   *)
LEMMA EmptyBuffer ==
  /\ [i \in 1..BlockSize |-> Padding] \in Seq(Byte)
  /\ Len([i \in 1..BlockSize |-> Padding]) = BlockSize
  /\ BlockSize % BlockSize = 0 /\ BlockSize > 0
<1>1. [i \in 1..BlockSize |-> Padding] \in [1..BlockSize -> Byte]
  BY DEF Byte
<1>2. BlockSize % BlockSize = 0
  BY Numbers
<1> QED BY <1>1, <1>2, Numbers, FunctionIsSeq

(* What a client writes goes to the places of its call.                    *)
LEMMA SourceBytes ==
  ASSUME NEW o, IsCall(o), NEW i \in 1..o.length
  PROVE  Source(o)[i] \in Byte
<1>1. /\ o.offset \in Nat /\ o.length \in Nat
      /\ o.version \in Versions \cup {OldVersion}
      /\ Position(o.offset) + o.length <= DeviceEnd /\ Position(o.offset) \in Nat
  BY CallFields, CallGeometry
<1>2. Position(o.offset + i - 1) = Position(o.offset) + i - 1
  <2>1. Start(FirstBlock) \in Nat
    BY Sizes
  <2> QED BY <1>1, <2>1 DEF Position, Start
<1>3. Position(o.offset + i - 1) \in Positions
  <2> DEFINE p == Position(o.offset)
  <2> HIDE DEF p
  <2>1. p \in Nat /\ p + o.length <= DeviceEnd
    BY <1>1 DEF p
  <2>2. p + i - 1 \in 0..DeviceEnd - 1
    BY <1>1, <2>1, Numbers
  <2>3. Positions = 0..DeviceEnd - 1
    BY Sizes
  <2> QED BY <1>2, <2>2, <2>3 DEF p
<1>4. Source(o)[i] = <<Position(o.offset + i - 1), o.version>>
  BY DEF Source
<1> QED BY <1>1, <1>3, <1>4 DEF Byte

(* The command for the rest of a call.                                     *)
LEMMA RestIssued ==
  ASSUME CommandInv, NEW o, IsCall(o), Rest(o) > 0, IssueRest(o)
  PROVE  /\ CommandInv'
         /\ command'.dir = IF o.kind = "read" THEN "in" ELSE "out"
         /\ command'.block = RestBlock(o)
         /\ Len(command'.buffer) = Rounded(Rest(o))
         /\ o.kind = "write" =>
              \A i \in 1..Rounded(Rest(o)) :
                command'.buffer[i] = IF i <= Rest(o)
                                       THEN Source(o)[HeadLength(o) + i] ELSE Padding
         /\ moved' = 0 /\ step' = "command"
      /\ UNCHANGED <<device, taking, answers, csw>>
<1> DEFINE n == Rounded(Rest(o))
           B == [i \in 1..n |->
                   IF o.kind = "write" /\ i <= Rest(o)
                     THEN Source(o)[HeadLength(o) + i] ELSE Padding]
           dir == IF o.kind = "read" THEN "in" ELSE "out"
<1>1. /\ n \in Nat /\ n % BlockSize = 0 /\ HeadLength(o) \in Nat
      /\ Rest(o) \in Nat /\ o.length = HeadLength(o) + Rest(o)
      /\ RestBlock(o) \in 0..LastBlock /\ n > 0
      /\ Start(RestBlock(o)) + n <= DeviceEnd
  BY CallGeometry
<1>2. Issue(dir, RestBlock(o), B)
  BY DEF IssueRest
<1> HIDE DEF n
<1>3. B \in [1..n -> Byte]
  <2>1. ASSUME NEW i \in 1..n, i <= Rest(o)
        PROVE  Source(o)[HeadLength(o) + i] \in Byte
    <3>1. HeadLength(o) + i \in 1..o.length
      BY <1>1, <2>1
    <3> QED BY <3>1, SourceBytes
  <2>2. Padding \in Byte
    BY DEF Byte
  <2> QED BY <2>1, <2>2
<1>4. o.kind = "write" =>
        \A i \in 1..n : B[i] = IF i <= Rest(o)
                                 THEN Source(o)[HeadLength(o) + i] ELSE Padding
  OBVIOUS
<1> HIDE DEF B
<1>5. B \in Seq(Byte) /\ Len(B) = n
  BY <1>1, <1>3, FunctionIsSeq
<1>6. dir \in {"in", "out"}
  OBVIOUS
<1> HIDE DEF dir
<1>7. /\ CommandInv' /\ command'.dir = dir /\ command'.block = RestBlock(o)
      /\ command'.buffer = B
      /\ moved' = 0 /\ step' = "command"
      /\ UNCHANGED <<device, taking, answers, csw>>
  BY <1>1, <1>2, <1>5, <1>6, IssuedCommand
<1> QED BY <1>4, <1>5, <1>7 DEF n, dir

(* The first block of a write.                                             *)
LEMMA PatchedBlock ==
  ASSUME NEW o, IsCall(o), Inside(o.offset) # 0,
         NEW block \in Seq(Byte), Len(block) = BlockSize
  PROVE  /\ Patched(o, block) \in Seq(Byte)
         /\ Len(Patched(o, block)) = BlockSize
         /\ \A i \in 1..HeadLength(o) :
              Patched(o, block)[Inside(o.offset) + i] = Source(o)[i]
         /\ \A i \in 1..BlockSize :
              i \notin Inside(o.offset) + 1..Inside(o.offset) + HeadLength(o) =>
                Patched(o, block)[i] = block[i]
<1> DEFINE s == Inside(o.offset)  h == HeadLength(o)
           P == [i \in 1..BlockSize |->
                   IF i \in s + 1..s + h THEN Source(o)[i - s] ELSE block[i]]
<1>1. /\ s \in Nat /\ h \in Nat /\ s + h <= BlockSize /\ BlockSize \in Nat
      /\ h <= o.length
  BY CallGeometry, CallFields, Numbers
<1>2. Patched(o, block) = P
  BY DEF Patched
<1> HIDE DEF s, h
<1>3. P \in [1..BlockSize -> Byte]
  <2> SUFFICES ASSUME NEW i \in 1..BlockSize
               PROVE  (IF i \in s + 1..s + h THEN Source(o)[i - s]
                       ELSE block[i]) \in Byte
    OBVIOUS
  <2>1. ASSUME i \in s + 1..s + h  PROVE Source(o)[i - s] \in Byte
    <3>1. i - s \in 1..o.length
      BY <1>1, <2>1, CallFields
    <3> QED BY <3>1, SourceBytes
  <2> QED BY <2>1, SeqIsFunction
<1>4. ASSUME NEW i \in 1..h  PROVE P[s + i] = Source(o)[i]
  <2>1. /\ s + i \in 1..BlockSize /\ s + i \in s + 1..s + h
        /\ (s + i) - s = i
    BY <1>1
  <2> QED BY <2>1
<1>5. \A i \in 1..BlockSize : i \notin s + 1..s + h => P[i] = block[i]
  OBVIOUS
<1> HIDE DEF P
<1>6. P \in Seq(Byte) /\ Len(P) = BlockSize
  BY <1>1, <1>3, FunctionIsSeq
<1> QED BY <1>2, <1>4, <1>5, <1>6 DEF s, h

(* The end of a call.                                                      *)
LEMMA EndTypes ==
  ASSUME CommandInv, NEW how, End(how)
  PROVE  /\ CommandInv' /\ at' = how /\ step' = "none"
         /\ UNCHANGED <<device, command, answers, csw>>
<1>1. /\ at' = how /\ step' = "none"
      /\ UNCHANGED <<device, taking, answers, command, moved, csw, late>>
  BY DEF End
<1> QED BY <1>1
        DEF CommandInv, ScsiTypeOK, AnswersOK, TakingOK, Waits, Start, Size, DeviceEnd

-----------------------------------------------------------------------------
(* Types: every step                                                       *)

(* The rest of a call after its command was issued.                        *)
LEMMA RestTypes ==
  ASSUME CommandInv, NEW o, IsCall(o), Rest(o) > 0, IssueRest(o),
         op' = o, at' = "rest", dest' \in Seq(Byte), doubtful' \in BOOLEAN
  PROVE  TypeInv'
<1>1. /\ CommandInv'
      /\ command'.dir = IF o.kind = "read" THEN "in" ELSE "out"
      /\ command'.block = RestBlock(o)
      /\ Len(command'.buffer) = Rounded(Rest(o))
      /\ o.kind = "write" =>
           \A i \in 1..Rounded(Rest(o)) :
             command'.buffer[i] = IF i <= Rest(o)
                                    THEN Source(o)[HeadLength(o) + i] ELSE Padding
      /\ step' = "command"
  BY RestIssued
<1>2. IsCall(op)'
  BY DEF IsCall
<1>3. CallInv'
  BY <1>1, <1>2 DEF CallInv, Size
<1>4. BufferInv'
  BY <1>1 DEF BufferInv, Size
<1> QED BY <1>1, <1>3, <1>4 DEF TypeInv

(* A call that begins.                                                     *)
LEMMA BeginTypes ==
  ASSUME TypeInv, NEW o, IsCall(o), Begin(o)
  PROVE  TypeInv'
<1>1. /\ CommandInv /\ step = "none"
      /\ op' = o /\ dest' = <<>> /\ doubtful' \in BOOLEAN
  BY DEF TypeInv, CallInv, Begin
<1>2. dest' \in Seq(Byte)
  BY <1>1
<1>3. CASE Inside(o.offset) = 0
  <2>1. at' = "rest" /\ IssueRest(o)
    BY <1>3 DEF Begin
  <2>2. Rest(o) > 0
    BY <1>3, CallGeometry
  <2> QED BY <1>1, <1>2, <2>1, <2>2, RestTypes
<1>4. CASE Inside(o.offset) # 0
  <2> DEFINE B == [i \in 1..BlockSize |-> Padding]
  <2>1. /\ at' = "head" /\ Issue("in", BlockOf(o.offset), B)
    BY <1>4 DEF Begin
  <2>2. /\ B \in Seq(Byte) /\ Len(B) = BlockSize /\ Len(B) % BlockSize = 0
        /\ Len(B) > 0
    BY EmptyBuffer
  <2> HIDE DEF B
  <2>3. /\ BlockOf(o.offset) \in 0..LastBlock
        /\ Start(BlockOf(o.offset)) + Len(B) <= DeviceEnd
    BY <2>2, CallGeometry
  <2>4. /\ CommandInv' /\ command'.dir = "in"
        /\ command'.block = BlockOf(o.offset) /\ command'.buffer = B
        /\ step' = "command"
    BY <1>1, <2>1, <2>2, <2>3, IssuedCommand
  <2>5. IsCall(op)'
    BY <1>1 DEF IsCall
  <2>6. CallInv'
    BY <1>1, <1>2, <1>4, <2>1, <2>2, <2>4, <2>5 DEF CallInv, Size
  <2>7. BufferInv'
    BY <2>1 DEF BufferInv
  <2> QED BY <2>4, <2>6, <2>7 DEF TypeInv
<1> QED BY <1>3, <1>4

(* A call that ends.                                                       *)
LEMMA CallEndTypes ==
  ASSUME TypeInv, at # "idle", NEW how \in {"returned", "threw"},
         End(how), UNCHANGED op, dest' \in Seq(Byte), doubtful' \in BOOLEAN
  PROVE  TypeInv'
<1>1. CommandInv' /\ at' = how /\ step' = "none"
  BY EndTypes DEF TypeInv
<1>2. IsCall(op)'
  BY DEF TypeInv, CallInv, IsCall
<1>3. CallInv' /\ BufferInv'
  BY <1>1, <1>2 DEF CallInv, BufferInv
<1> QED BY <1>1, <1>3 DEF TypeInv

(* A call that goes on with its rest, or ends.                             *)
LEMMA ContinueTypes ==
  ASSUME TypeInv, at # "idle", Continue,
         UNCHANGED op, dest' \in Seq(Byte), doubtful' \in BOOLEAN
  PROVE  TypeInv'
<1>1. IsCall(op)
  BY DEF TypeInv, CallInv
<1>2. CASE Rest(op) > 0
  BY <1>1, <1>2, RestTypes DEF Continue, TypeInv
<1>3. CASE ~(Rest(op) > 0)
  BY <1>3, CallEndTypes DEF Continue
<1> QED BY <1>2, <1>3

(* A step of a command keeps the types of the call.                        *)
LEMMA TransferTypes ==
  ASSUME TypeInv, Transfer, UNCHANGED <<op, at, dest, doubtful>>
  PROVE  TypeInv'
<1>1. CommandInv' /\ SameCommand
  BY TransferStep DEF TypeInv
<1>2. op = NoOp \/ IsCall(op) => (op = NoOp \/ IsCall(op))'
  BY DEF IsCall
<1>3. IsCall(op) => IsCall(op)'
  BY DEF IsCall
<1>4. CallInv'
  BY <1>1, <1>2, <1>3 DEF TypeInv, CallInv, SameCommand, Size
<1>5. BufferInv'
  <2>1. at = "patch" \/ (at = "rest" /\ op.kind = "write") => command' = command
    BY <1>1 DEF TypeInv, CallInv, SameCommand
  <2> QED BY <2>1 DEF TypeInv, BufferInv, Size
<1> QED BY <1>1, <1>4, <1>5 DEF TypeInv

(* What is known when a command of a call has ended.                       *)
LEMMA DoneTypes ==
  ASSUME TypeInv, Done
  PROVE  /\ step # "none" /\ at # "idle" /\ IsCall(op)
         /\ at \in {"head", "patch", "rest"}
         /\ doubtful' = (doubtful \/ ~csw \/ answers # <<>>)
         /\ doubtful' \in BOOLEAN
         /\ command.buffer \in Seq(Byte) /\ dest \in Seq(Byte)
BY CommandTypes DEF TypeInv, CallInv, Done, Passed

(* The bytes a read takes from its first block.                            *)
LEMMA HeadBytes ==
  ASSUME TypeInv, at = "head"
  PROVE  LET s == Inside(op.offset)
             t == SubSeq(command.buffer, s + 1, BlockSize)
         IN  /\ t \in Seq(Byte) /\ Len(t) = BlockSize - s
             /\ \A i \in 1..BlockSize - s : t[i] = command.buffer[s + i]
<1> DEFINE s == Inside(op.offset)  b == command.buffer
<1>1. /\ IsCall(op) /\ Len(b) = BlockSize /\ b \in Seq(Byte) /\ s # 0
  BY CommandTypes DEF TypeInv, CallInv, Size
<1>2. s \in 1..Len(b)
  BY <1>1, CallGeometry, Numbers
<1> HIDE DEF s, b
<1> QED BY <1>1, <1>2, CutBytes DEF s, b

(* A read has its first block.                                             *)
LEMMA HeadReadTypes ==
  ASSUME TypeInv, HeadRead
  PROVE  TypeInv'
<1>1. /\ Done /\ at = "head" /\ UNCHANGED op
  BY DEF HeadRead
<1>2. CASE Overflows(op)
  BY <1>1, <1>2, DoneTypes, CallEndTypes DEF HeadRead
<1>3. CASE ~Overflows(op)
  <2>1. /\ dest' = SubSeq(command.buffer, Inside(op.offset) + 1, BlockSize)
        /\ Continue
    BY <1>3 DEF HeadRead
  <2>2. dest' \in Seq(Byte)
    BY <1>1, <2>1, HeadBytes
  <2> QED BY <1>1, <2>1, <2>2, DoneTypes, ContinueTypes
<1> QED BY <1>2, <1>3

(* The command that writes the first block back.                           *)
LEMMA PatchIssued ==
  ASSUME TypeInv, PatchHead
  PROVE  LET P == Patched(op, command.buffer)
         IN  /\ CommandInv' /\ command'.dir = "out"
             /\ command'.block = command.block /\ command'.buffer = P
             /\ Len(P) = BlockSize /\ step' = "command"
             /\ UNCHANGED <<device, taking, answers, csw>>
             /\ \A i \in 1..HeadLength(op) :
                  P[Inside(op.offset) + i] = Source(op)[i]
             /\ \A i \in 1..BlockSize :
                  i \notin Inside(op.offset) + 1
                             ..Inside(op.offset) + HeadLength(op) =>
                    P[i] = command.buffer[i]
<1> DEFINE P == Patched(op, command.buffer)
<1>1. /\ Done /\ at = "head" /\ Issue("out", BlockOf(op.offset), P)
  BY DEF PatchHead
<1>2. /\ CommandInv /\ IsCall(op) /\ Inside(op.offset) # 0
      /\ command.block = BlockOf(op.offset)
      /\ command.buffer \in Seq(Byte) /\ Len(command.buffer) = BlockSize
  BY <1>1, DoneTypes DEF TypeInv, CallInv, Size
<1>3. /\ P \in Seq(Byte) /\ Len(P) = BlockSize
      /\ \A i \in 1..HeadLength(op) :
           P[Inside(op.offset) + i] = Source(op)[i]
      /\ \A i \in 1..BlockSize :
           i \notin Inside(op.offset) + 1
                      ..Inside(op.offset) + HeadLength(op) =>
             P[i] = command.buffer[i]
  BY <1>2, PatchedBlock
<1> HIDE DEF P
<1>4. /\ BlockOf(op.offset) \in 0..LastBlock
      /\ Start(BlockOf(op.offset)) + Len(P) <= DeviceEnd
      /\ Len(P) % BlockSize = 0 /\ Len(P) > 0
  BY <1>2, <1>3, CallGeometry, EmptyBuffer
<1>5. /\ CommandInv' /\ command'.dir = "out"
      /\ command'.block = BlockOf(op.offset) /\ command'.buffer = P
      /\ step' = "command"
      /\ UNCHANGED <<device, taking, answers, csw>>
  BY <1>1, <1>2, <1>3, <1>4, IssuedCommand
<1> QED BY <1>2, <1>3, <1>5 DEF P

(* A write puts its bytes into the first block.                            *)
LEMMA PatchHeadTypes ==
  ASSUME TypeInv, PatchHead
  PROVE  TypeInv'
<1>1. /\ Done /\ at = "head" /\ at' = "patch" /\ op.kind = "write"
      /\ UNCHANGED <<op, dest>>
  BY DEF PatchHead
<1>2. /\ CommandInv' /\ command'.dir = "out"
      /\ command'.block = command.block /\ Len(command'.buffer) = BlockSize
      /\ step' = "command"
      /\ \A i \in 1..HeadLength(op) :
           command'.buffer[Inside(op.offset) + i] = Source(op)[i]
  BY PatchIssued
<1>3. /\ command.block = BlockOf(op.offset) /\ Inside(op.offset) # 0
      /\ IsCall(op) /\ doubtful' \in BOOLEAN /\ dest' \in Seq(Byte)
  BY <1>1, DoneTypes DEF TypeInv, CallInv
<1>4. IsCall(op)'
  BY <1>1, <1>3 DEF IsCall
<1>5. CallInv'
  BY <1>1, <1>2, <1>3, <1>4 DEF CallInv, Size
<1>6. BufferInv'
  BY <1>1, <1>2 DEF BufferInv
<1> QED BY <1>2, <1>5, <1>6 DEF TypeInv

(* A write has written its first block.                                    *)
LEMMA HeadWrittenTypes ==
  ASSUME TypeInv, HeadWritten
  PROVE  TypeInv'
<1>1. /\ Done /\ Continue /\ UNCHANGED <<op, dest>>
  BY DEF HeadWritten
<1> QED BY <1>1, DoneTypes, ContinueTypes

(* The bytes a read takes from the rest.                                   *)
LEMMA RestBytes ==
  ASSUME TypeInv, at = "rest"
  PROVE  LET t == SubSeq(command.buffer, 1, Rest(op))
         IN  /\ t \in Seq(Byte) /\ Len(t) = Rest(op)
             /\ \A i \in 1..Rest(op) : t[i] = command.buffer[i]
             /\ dest \o t \in Seq(Byte) /\ Len(dest \o t) = Len(dest) + Rest(op)
             /\ \A i \in 1..Len(dest) : (dest \o t)[i] = dest[i]
             /\ \A i \in 1..Rest(op) : (dest \o t)[Len(dest) + i] = t[i]
<1> DEFINE b == command.buffer  n == Rest(op)  t == SubSeq(b, 1, n)
<1>1. /\ IsCall(op) /\ b \in Seq(Byte) /\ Len(b) = Rounded(n) /\ n > 0
      /\ dest \in Seq(Byte)
  BY CommandTypes DEF TypeInv, CallInv, Size
<1>2. n \in Nat /\ Rounded(n) \in Nat /\ Rounded(n) >= n
  BY <1>1, CallGeometry
<1> HIDE DEF b, n
<1>3. n \in 1..Len(b)
  BY <1>1, <1>2
<1>4. t \in Seq(Byte) /\ Len(t) = n /\ \A i \in 1..n : t[i] = b[i]
  BY <1>1, <1>3, CutBytes
<1> HIDE DEF t
<1>5. /\ dest \o t \in Seq(Byte) /\ Len(dest \o t) = Len(dest) + Len(t)
      /\ \A i \in 1..Len(dest) + Len(t) :
           (dest \o t)[i] = IF i <= Len(dest) THEN dest[i] ELSE t[i - Len(dest)]
  BY <1>1, <1>4, ConcatProperties
<1>6. Len(dest) \in Nat
  BY <1>1, SeqIsFunction
<1>7. ASSUME NEW i \in 1..Len(dest)  PROVE (dest \o t)[i] = dest[i]
  BY <1>2, <1>4, <1>5, <1>6
<1>8. ASSUME NEW i \in 1..n  PROVE (dest \o t)[Len(dest) + i] = t[i]
  <2>1. /\ Len(dest) + i \in 1..Len(dest) + Len(t) /\ ~(Len(dest) + i <= Len(dest))
        /\ (Len(dest) + i) - Len(dest) = i
    BY <1>2, <1>4, <1>6
  <2> QED BY <1>5, <2>1
<1> QED BY <1>4, <1>5, <1>7, <1>8 DEF t, b, n

(* A call has moved its rest.                                              *)
LEMMA RestDoneTypes ==
  ASSUME TypeInv, RestDone
  PROVE  TypeInv'
<1>1. /\ Done /\ at = "rest" /\ End("returned") /\ UNCHANGED op
      /\ dest' = IF op.kind = "read"
                   THEN dest \o SubSeq(command.buffer, 1, Rest(op)) ELSE dest
  BY DEF RestDone
<1>2. dest' \in Seq(Byte)
  BY <1>1, RestBytes, DoneTypes
<1> QED BY <1>1, <1>2, DoneTypes, CallEndTypes

(* An exception ends the call.                                             *)
LEMMA ThrownTypes ==
  ASSUME TypeInv, Thrown
  PROVE  TypeInv'
<1>1. /\ step = "threw" /\ End("threw") /\ UNCHANGED <<op, dest, doubtful>>
  BY DEF Thrown, historyVars
<1>2. at # "idle" /\ dest' \in Seq(Byte) /\ doubtful' \in BOOLEAN
  BY <1>1 DEF TypeInv, CallInv
<1> QED BY <1>1, <1>2, CallEndTypes

(* Types before any call.                                                  *)
LEMMA InitTypes == Init => TypeInv
<1> SUFFICES ASSUME Init PROVE TypeInv
  OBVIOUS
<1>1. /\ device = [p \in Positions |-> <<p, OldVersion>>]
      /\ taking = <<>> /\ answers = <<>>
      /\ command = NoCommand /\ moved = 0 /\ step = "none"
      /\ csw = TRUE /\ late = 0
      /\ op = NoOp /\ at = "idle" /\ dest = <<>> /\ doubtful = FALSE
  BY DEF Init, ScsiInit
<1>2. /\ command.dir = "in" /\ command.block = 0 /\ command.buffer = <<>>
      /\ Size = 0
      /\ command = [dir |-> command.dir, block |-> command.block,
                    buffer |-> command.buffer]
  BY <1>1 DEF NoCommand, Size
<1>3. device \in [Positions -> Byte]
  BY <1>1 DEF Byte
<1>4. Start(command.block) + Size <= DeviceEnd
  BY <1>2, Numbers DEF Start
<1>5. ScsiTypeOK
  BY <1>1, <1>2, <1>3, Numbers, SizeAssumption DEF ScsiTypeOK
<1>6. CommandInv
  BY <1>1, <1>2, <1>4, <1>5 DEF CommandInv, AnswersOK, TakingOK
<1>7. CallInv
  <2>1. <<>> \in Seq(Byte) /\ FALSE \in BOOLEAN
    OBVIOUS
  <2>2. (at \in {"idle", "returned", "threw"}) = (step = "none")
    BY <1>1
  <2> QED BY Zenon, <1>1, <2>1, <2>2 DEF CallInv
<1>8. BufferInv
  BY <1>1 DEF BufferInv
<1> QED BY <1>6, <1>7, <1>8 DEF TypeInv

(* Every step keeps the types.                                             *)
LEMMA StepTypes == TypeInv /\ [Next]_vars => TypeInv'
<1> SUFFICES ASSUME TypeInv, [Next]_vars PROVE TypeInv'
  OBVIOUS
<1>1. CASE Read
  BY <1>1, BeginTypes DEF Read, IsCall
<1>2. CASE Write
  BY <1>2, BeginTypes DEF Write, IsCall
<1>3. CASE Move
  BY <1>3, TransferTypes DEF Move
<1>4. CASE HeadRead
  BY <1>4, HeadReadTypes
<1>5. CASE PatchHead
  BY <1>5, PatchHeadTypes
<1>6. CASE HeadWritten
  BY <1>6, HeadWrittenTypes
<1>7. CASE RestDone
  BY <1>7, RestDoneTypes
<1>8. CASE Thrown
  BY <1>8, ThrownTypes
<1>9. CASE UNCHANGED vars
  <2>1. /\ UNCHANGED <<device, taking, answers, command, moved, step, csw, late>>
        /\ UNCHANGED <<op, at, dest, doubtful>>
    BY <1>9 DEF vars, scsiVars, historyVars
  <2>2. CommandInv'
    BY <2>1 DEF TypeInv, CommandInv, ScsiTypeOK, AnswersOK, TakingOK, Waits,
                Start, Size, DeviceEnd
  <2>3. CallInv' /\ BufferInv'
    BY <2>1 DEF TypeInv, CallInv, IsCall, BufferInv, Size
  <2> QED BY <2>2, <2>3 DEF TypeInv
<1> QED BY <1>1, <1>2, <1>3, <1>4, <1>5, <1>6, <1>7, <1>8, <1>9 DEF Next

-----------------------------------------------------------------------------
(* What a call has moved: the steps of a command                           *)

(* The answers the device may have, as far as they differ.                 *)
LEMMA AnswersDiffer ==
  ASSUME NEW x, NEW y, NEW z
  PROVE  <<x>> # <<y, z>>
<1>1. Len(<<x>>) = 1 /\ Len(<<y, z>>) = 2
  OBVIOUS
<1> QED BY <1>1

(* The parts of a queue of two answers.                                    *)
LEMMA SameTwo ==
  ASSUME NEW x, NEW y, NEW v, NEW w, <<x, y>> = <<v, w>>
  PROVE  x = v /\ y = w
<1>1. <<x, y>>[1] = x /\ <<x, y>>[2] = y /\ <<v, w>>[1] = v /\ <<v, w>>[2] = w
  OBVIOUS
<1> QED BY <1>1

(* What a step of a command leaves of the history.                         *)
LEMMA MoveHistory ==
  ASSUME Move, HistoryInv
  PROVE  /\ Transfer /\ UNCHANGED <<op, at, dest, doubtful>>
         /\ failed => failed'
         /\ late' # late => failed'
         /\ taking' # <<>> /\ taking = <<>> => writer' = op
         /\ taking' # <<>> /\ taking # <<>> => writer' = writer
         /\ taking' = <<>> => writer' = NoOp
         /\ failed' \in BOOLEAN
BY DEF Move, HistoryInv

(* The device takes the command and has to send what is stored, or junk,   *)
(* or waits for the data; or the command does not go out.                  *)
LEMMA SendCommandContent ==
  ASSUME TypeInv, HistoryInv, TransferInv, Move, SendCommand
  PROVE  TransferInv' /\ UNCHANGED device
<1>1. /\ step = "command" /\ step' = "data" /\ answers = <<>> /\ taking = <<>>
      /\ moved = 0 /\ UNCHANGED <<command, moved, csw>>
  BY DEF SendCommand, TransferInv, Ready
<1>2. \/ Accept /\ UNCHANGED <<device, late>>
      \/ Late /\ UNCHANGED <<device, taking, answers>>
  BY <1>1 DEF SendCommand
<1>3. CASE Late /\ UNCHANGED <<device, taking, answers>>
  <2>1. failed'
    BY <1>3, LateTypes, MoveHistory DEF TypeInv
  <2>2. taking' = <<>> /\ answers' = <<>>
    BY <1>1, <1>3
  <2> QED BY <1>1, <1>3, <2>1, <2>2 DEF TransferInv
<1>4. CASE Accept /\ UNCHANGED <<device, late>> /\ command.dir = "out"
  <2>1. taking' = <<Waiting(command.block, Size, <<>>)>> /\ answers' = <<>>
    BY <1>1, <1>4 DEF Accept, Waiting
  <2>2. writer' = op /\ UNCHANGED op
    <3>1. taking' # <<>>
      BY <2>1
    <3> QED BY <1>1, <3>1, MoveHistory
  <2>3. SubSeq(command.buffer, 1, moved) = <<>>
    <3>1. command.buffer \in Seq(Byte)
      BY CommandTypes DEF TypeInv
    <3> QED BY <1>1, <3>1
  <2>4. Waits(command.block, Size, <<>>)'
    <3>1. /\ command.block \in 0..LastBlock /\ Size \in Nat /\ Size > 0
          /\ Start(command.block) + Size <= DeviceEnd
      BY <1>1, CommandTypes DEF TypeInv, CommandInv, ScsiTypeOK
    <3>2. <<>> \in Seq(Byte) /\ Len(<<>>) = 0
      OBVIOUS
    <3> QED BY <1>1, <2>1, <3>1, <3>2 DEF Waits, Size, Start, DeviceEnd
  <2>5. Waits(command.block, Size, SubSeq(command.buffer, 1, moved))'
    BY <1>1, <2>3, <2>4
  <2> QED BY <1>1, <1>4, <2>2, <2>5 DEF TransferInv
<1>5. CASE Accept /\ UNCHANGED <<device, late>> /\ command.dir = "in"
  <2>1. PICK ok \in BOOLEAN :
          answers' = <<DataAnswer(IF ok THEN Stored(command)
                                  ELSE [i \in 1..Size |-> Junk]),
                       StatusAnswer(ok)>>
    BY <1>5 DEF Accept
  <2> DEFINE bs == IF ok THEN Stored(command) ELSE [i \in 1..Size |-> Junk]
  <2>2. /\ Len(bs) = Size
        /\ ok => \A i \in 1..Len(bs) :
                   bs[i] = device[Start(command.block) + moved + i - 1]
    <3>1. Size \in Nat /\ Start(command.block) \in Nat
      BY CommandTypes DEF TypeInv
    <3>2. [i \in 1..Size |-> Junk] \in [1..Size -> {Junk}]
      OBVIOUS
    <3>3. Len([i \in 1..Size |-> Junk]) = Size
      BY <3>1, <3>2, FunctionIsSeq
    <3>4. /\ Len(Stored(command)) = Size
          /\ \A i \in 1..Size :
               Stored(command)[i] = device[Start(command.block) + i - 1]
      BY StoredBytes DEF TypeInv
    <3>5. Len(bs) = Size
      BY <3>3, <3>4
    <3>6. ASSUME ok, NEW i \in 1..Size
          PROVE  bs[i] = device[Start(command.block) + moved + i - 1]
      <4>1. Start(command.block) + moved + i - 1 = Start(command.block) + i - 1
        BY <1>1, <3>1
      <4> QED BY <3>4, <3>6, <4>1
    <3> HIDE DEF bs
    <3> QED BY <3>5, <3>6
  <2>3. answers' = <<DataAnswer(bs), StatusAnswer(ok)>>
    BY <2>1
  <2> HIDE DEF bs
  <2>4. answers'[1].bytes = bs /\ answers' # <<>>
    BY <2>3, TwoAnswers, AnswerFields
  <2>5. Len(bs) = Size - moved /\ 1..moved = {}
    BY <1>1, <2>2, CommandTypes DEF TypeInv
  <2>6. /\ answers' = <<DataAnswer(answers'[1].bytes), StatusAnswer(ok)>>
        /\ Len(answers'[1].bytes) = Size - moved
        /\ ok => /\ \A i \in 1..moved :
                      command.buffer[i] = device[Start(command.block) + i - 1]
                 /\ \A i \in 1..Len(answers'[1].bytes) :
                      answers'[1].bytes[i]
                        = device[Start(command.block) + moved + i - 1]
    BY <2>2, <2>3, <2>4, <2>5
  <2>7. taking' = <<>>
    BY <1>1, <1>5 DEF Accept
  <2> QED BY <1>1, <1>5, <2>4, <2>6, <2>7 DEF TransferInv, Size, Start
<1> QED BY <1>2, <1>3, <1>4, <1>5 DEF TypeInv, CommandInv, ScsiTypeOK

(* What was moved and what is left to be sent stay the whole.              *)
LEMMA DataInContent ==
  ASSUME TypeInv, HistoryInv, TransferInv, Move, DataIn, answers # <<>>
  PROVE  TransferInv' /\ UNCHANGED device
<1>1. /\ step = "data" /\ command.dir = "in" /\ UNCHANGED <<device, taking>>
      /\ taking' = <<>>
  BY DEF DataIn, TransferInv
<1> DEFINE first == Start(command.block)
<1>2. PICK ok \in BOOLEAN :
           /\ answers = <<DataAnswer(answers[1].bytes), StatusAnswer(ok)>>
           /\ Len(answers[1].bytes) = Size - moved
           /\ ok => /\ \A i \in 1..moved : command.buffer[i] = device[first + i - 1]
                    /\ \A i \in 1..Len(answers[1].bytes) :
                         answers[1].bytes[i] = device[first + moved + i - 1]
  BY <1>1 DEF TransferInv
<1>3. answers # <<>>
  OBVIOUS
<1>4. PICK ok2 \in BOOLEAN, bytes \in Seq(Byte), n \in Nat :
        /\ DataCame(bytes, n)
        /\ \/ answers = <<StatusAnswer(ok2)>> /\ answers' = <<>>
           \/ /\ answers = <<DataAnswer(bytes), StatusAnswer(ok2)>>
              /\ answers' =
                   IF n = Len(bytes) THEN <<StatusAnswer(ok2)>>
                   ELSE <<DataAnswer(SubSeq(bytes, n + 1, Len(bytes))),
                          StatusAnswer(ok2)>>
  BY <1>3, DataInMoves DEF TypeInv
<1>5. answers # <<StatusAnswer(ok2)>>
  BY <1>2, AnswersDiffer
<1>6. answers = <<DataAnswer(bytes), StatusAnswer(ok2)>>
  BY <1>4, <1>5
<1>7. answers[1].bytes = bytes /\ ok2 = ok
  <2> DEFINE b == answers[1].bytes
  <2>1. <<DataAnswer(bytes), StatusAnswer(ok2)>>
          = <<DataAnswer(b), StatusAnswer(ok)>>
    BY <1>2, <1>6
  <2> HIDE DEF b
  <2>2. DataAnswer(bytes) = DataAnswer(b) /\ StatusAnswer(ok2) = StatusAnswer(ok)
    BY <2>1, SameTwo
  <2>3. bytes = b /\ ok2 = ok
    BY <2>2, AnswerFields
  <2> QED BY <2>3 DEF b
<1>8. /\ command' = [dir |-> command.dir, block |-> command.block,
                     buffer |-> command'.buffer]
      /\ command'.dir = command.dir /\ command'.block = command.block
      /\ command'.buffer \in Seq(Byte) /\ Len(command'.buffer) = Size
      /\ moved' \in Nat /\ moved' <= Size /\ moved' = moved + n
      /\ \A i \in 1..moved : command'.buffer[i] = command.buffer[i]
      /\ \A i \in 1..n : command'.buffer[moved + i] = bytes[i]
      /\ step' = IF moved + n < Size THEN "data" ELSE "status"
  BY <1>4, DataCameCommand DEF TypeInv
<1>9. /\ n \in 1..Len(bytes) /\ Len(bytes) = Size - moved
      /\ Size \in Nat /\ moved \in Nat /\ first \in Nat /\ Len(bytes) \in Nat
  BY <1>2, <1>4, <1>7, CommandTypes, SeqIsFunction DEF DataCame, TypeInv
<1> HIDE DEF first
<1>10. ASSUME ok, NEW i \in 1..moved + n
       PROVE  command'.buffer[i] = device[first + i - 1]
  <2>1. CASE i <= moved
    <3>1. i \in 1..moved
      BY <1>9, <2>1
    <3> QED BY <1>2, <1>8, <1>10, <3>1
  <2>2. CASE ~(i <= moved)
    <3>1. /\ i - moved \in 1..n /\ i - moved \in 1..Len(bytes)
          /\ moved + (i - moved) = i
          /\ first + moved + (i - moved) - 1 = first + i - 1
      BY <1>9, <2>2
    <3> QED BY <1>2, <1>7, <1>8, <1>10, <3>1
  <2> QED BY <2>1, <2>2
<1>11. CASE n = Len(bytes)
  <2>1. step' = "status" /\ answers' = <<StatusAnswer(ok)>>
    BY <1>4, <1>5, <1>7, <1>8, <1>9, <1>11
  <2>2. ok => \A i \in 1..Size : command'.buffer[i] = device[first + i - 1]
    BY <1>9, <1>10, <1>11
  <2>3. ok => SameAsStored(command)'
    BY <1>1, <1>8, <2>2 DEF SameAsStored, first, Start
  <2>4. \E k \in BOOLEAN :
          answers' = <<StatusAnswer(k)>> /\ (k => SameAsStored(command)')
    BY <2>1, <2>3
  <2>5. /\ step' # "command" /\ step' # "data" /\ step' # "done"
        /\ step' # "threw"
    BY <2>1
  <2>6. TransferInv'
    BY Zenon, <1>1, <2>4, <2>5 DEF TransferInv
  <2> QED BY <1>1, <2>6
<1>12. CASE n # Len(bytes)
  <2> DEFINE rest == SubSeq(bytes, n + 1, Len(bytes))
  <2>1. step' = "data"
    BY <1>8, <1>9, <1>12
  <2>2. answers' = <<DataAnswer(rest), StatusAnswer(ok)>>
    BY <1>4, <1>5, <1>7, <1>12
  <2>3. /\ Len(rest) = Len(bytes) - n
        /\ \A i \in 1..Len(bytes) - n : rest[i] = bytes[n + i]
    BY <1>9, CutBytes
  <2> HIDE DEF rest
  <2>4. answers'[1].bytes = rest
    BY <2>2, TwoAnswers, AnswerFields
  <2>5. Len(rest) = Size - moved'
    BY <1>8, <1>9, <2>3
  <2>6. ASSUME ok, NEW i \in 1..Len(rest)
        PROVE  rest[i] = device[first + moved' + i - 1]
    <3>1. /\ n + i \in 1..Len(bytes) /\ i \in 1..Len(bytes) - n
          /\ first + moved + (n + i) - 1 = first + moved' + i - 1
      <4> DEFINE L == Len(bytes)
      <4>1. L \in Nat /\ n \in 1..L /\ i \in 1..L - n
        BY <1>9, <2>3
      <4> HIDE DEF L
      <4>2. n + i \in 1..L
        BY <4>1
      <4>3. first + moved + (n + i) - 1 = first + moved' + i - 1
        BY <1>8, <1>9, <4>1
      <4> QED BY <4>1, <4>2, <4>3 DEF L
    <3> QED BY <1>2, <1>7, <2>3, <2>6, <3>1
  <2>7. ok => \A i \in 1..moved' : command'.buffer[i] = device[first + i - 1]
    BY <1>8, <1>10
  <2>8. /\ answers' = <<DataAnswer(answers'[1].bytes), StatusAnswer(ok)>>
        /\ Len(answers'[1].bytes) = Len(command'.buffer) - moved'
        /\ ok => /\ \A i \in 1..moved' :
                      command'.buffer[i] = device[first + i - 1]
                 /\ \A i \in 1..Len(answers'[1].bytes) :
                      answers'[1].bytes[i] = device[first + moved' + i - 1]
    BY <1>8, <2>2, <2>4, <2>5, <2>6, <2>7
  <2>9. Start(command'.block) = first /\ command'.dir = "in" /\ device' = device
    BY <1>1, <1>8 DEF first
  <2>10. answers' # <<>>
    BY <2>2, TwoAnswers
  <2> QED BY <1>1, <2>1, <2>8, <2>9, <2>10 DEF TransferInv, Size, Start
<1> QED BY <1>1, <1>11, <1>12

(* Where the positions of a call are.                                      *)
LEMMA CallPositions ==
  ASSUME NEW o, IsCall(o), NEW i \in 1..o.length
  PROVE  /\ Position(o.offset) + i - 1 \in Positions
         /\ Position(o.offset) \in Nat /\ o.length \in Nat
<1> DEFINE p == Position(o.offset)
<1>1. p \in Nat /\ o.length \in Nat /\ p + o.length <= DeviceEnd
  BY CallFields, CallGeometry
<1> HIDE DEF p
<1>2. p + i - 1 \in 0..DeviceEnd - 1
  BY <1>1, Numbers
<1>3. Positions = 0..DeviceEnd - 1
  BY Sizes
<1> QED BY <1>1, <1>2, <1>3 DEF p

(* A transfer of a write that the device waits for: it has what has gone   *)
(* out, and with the last byte it stores the buffer or refuses to.         *)
LEMMA OutTakes ==
  ASSUME TypeInv, NEW n \in Taken, Take(NextBytes(n)),
         Waits(command.block, Size, SubSeq(command.buffer, 1, moved))
  PROVE  LET all == SubSeq(command.buffer, 1, moved + n)
         IN  /\ n \in Nat /\ moved + n <= Size
             /\ \/ /\ moved + n < Size /\ Len(all) = moved + n
                   /\ all \in Seq(Byte)
                   /\ TakesMore(command.block, Size, all)
                \/ /\ moved + n = Size /\ all = command.buffer
                   /\ TakesLast(command.block, command.buffer)
<1> DEFINE b == command.buffer  bs == SubSeq(b, 1, moved)
           all == SubSeq(b, 1, moved + n)  c == command.block
<1>1. /\ n \in Nat /\ moved + n <= Size
      /\ NextBytes(n) \in Seq(Byte) /\ Len(NextBytes(n)) = n
      /\ Len(NextBytes(n)) <= Expected
  <2>1. taking # <<>>
    BY DEF Waits
  <2> QED BY <2>1, TakenBytes DEF TypeInv
<1>2. b \in Seq(Byte) /\ Size = Len(b) /\ moved \in Nat /\ Size \in Nat
  BY CommandTypes DEF TypeInv, Size
<1>3. bs \o NextBytes(n) = all
  <2>1. moved + n <= Len(b)
    BY <1>1, <1>2
  <2> HIDE DEF b
  <2>2. SubSeq(b, 1, moved) \o SubSeq(b, moved + 1, moved + n)
          = SubSeq(b, 1, moved + n)
    BY <1>1, <1>2, <2>1, LongerBeginning
  <2> QED BY <2>2 DEF NextBytes, b
<1>4. Len(all) = moved + n /\ all \in Seq(Byte)
  <2>1. moved + n \in Nat /\ moved + n <= Len(b) /\ 0 \in Nat
        /\ moved + n + 0 <= Len(b)
    BY <1>1, <1>2
  <2> HIDE DEF b
  <2> QED BY <1>2, <2>1, LongerBeginning
<1>5. /\ \/ Len(all) < Size /\ TakesMore(c, Size, all)
         \/ Len(all) = Size /\ TakesLast(c, all)
  <2> DEFINE N == NextBytes(n)  Z == Size
  <2>1. /\ N \in Seq(Byte) /\ Len(N) <= Expected /\ Take(N)
        /\ Waits(c, Z, bs)
    BY <1>1
  <2>2. bs \o N = all
    BY <1>3
  <2> HIDE DEF N, Z, c, bs, all
  <2>3. \/ Len(bs \o N) < Z /\ TakesMore(c, Z, bs \o N)
        \/ Len(bs \o N) = Z /\ TakesLast(c, bs \o N)
    BY <2>1, Takes DEF TypeInv
  <2> QED BY <2>2, <2>3 DEF Z
<1>6. moved + n = Size => all = b
  <2>1. SubSeq(b, 1, Len(b)) = b
    <3> HIDE DEF b
    <3> QED BY <1>2
  <2> QED BY <1>2, <2>1
<1> QED BY <1>1, <1>4, <1>5, <1>6

(* What a device that waited, or waits no more, has of a write.            *)
LEMMA OutTakesContent ==
  ASSUME TypeInv, TransferInv, UNCHANGED <<op, command, csw>>,
         step = "data", command.dir = "out", taking # <<>>,
         NEW n \in Taken, Take(NextBytes(n)), taking' # <<>> => writer' = writer,
         \/ Moved(n)
         \/ UNCHANGED moved /\ step' = "threw" /\ failed'
  PROVE  /\ TransferInv'
         /\ \/ device' = device
            \/ device' = StoredWith(command.block, command.buffer)
<1> DEFINE all == SubSeq(command.buffer, 1, moved + n)
<1>1. Waits(command.block, Size, SubSeq(command.buffer, 1, moved)) /\ writer = op
  BY DEF TransferInv
<1>2. /\ n \in Nat /\ moved + n <= Size
      /\ \/ /\ moved + n < Size /\ Len(all) = moved + n /\ all \in Seq(Byte)
            /\ TakesMore(command.block, Size, all)
         \/ /\ moved + n = Size /\ all = command.buffer
            /\ TakesLast(command.block, command.buffer)
  BY <1>1, OutTakes
<1>3. ASSUME UNCHANGED moved, step' = "threw", failed'
      PROVE  TransferInv'
  BY <1>3 DEF TransferInv
<1>4. CASE /\ moved + n < Size /\ Len(all) = moved + n /\ all \in Seq(Byte)
           /\ TakesMore(command.block, Size, all)
  <2>1. /\ device' = device /\ answers' = <<>>
        /\ taking' = <<Waiting(command.block, Size, all)>> /\ taking' # <<>>
    BY <1>1, <1>4 DEF TakesMore, Waits
  <2>2. ASSUME Moved(n)  PROVE TransferInv'
    <3>1. moved' = moved + n /\ step' = "data"
      BY <1>4, <2>2 DEF Moved
    <3>2. all = SubSeq(command.buffer, 1, moved)'
      BY <3>1
    <3> HIDE DEF all
    <3>3. Waits(command.block, Size, SubSeq(command.buffer, 1, moved))'
      BY <1>1, <1>4, <2>1, <3>1, <3>2 DEF Waits, Size, Start, DeviceEnd
    <3>4. writer' = op'
      BY <1>1, <2>1
    <3> QED BY <3>1, <3>3, <3>4 DEF TransferInv
  <2> QED BY <1>3, <2>1, <2>2
<1>5. CASE /\ moved + n = Size
           /\ TakesLast(command.block, command.buffer)
  <2>1. PICK ok \in BOOLEAN :
          /\ answers' = <<StatusAnswer(ok)>>
          /\ device' = IF ok THEN StoredWith(command.block, command.buffer)
                       ELSE device
    BY <1>5 DEF TakesLast
  <2>2. taking' = <<>>
    BY <1>5 DEF TakesLast
  <2>3. ASSUME Moved(n)  PROVE TransferInv'
    <3>1. step' = "status"
      BY <1>5, <2>3, CommandTypes DEF Moved, TypeInv
    <3>2. ok => SameAsStored(command)'
      <4>1. /\ command.buffer \in Seq(Byte) /\ command.block \in 0..LastBlock
            /\ Start(command.block) + Len(command.buffer) <= DeviceEnd
        BY DEF TypeInv, CommandInv, ScsiTypeOK, Size
      <4> DEFINE D == StoredWith(command.block, command.buffer)
      <4>2. \A i \in 1..Len(command.buffer) :
              D[Start(command.block) + i - 1] = command.buffer[i]
        BY <4>1, StoredBytesOf DEF TypeInv
      <4> HIDE DEF D
      <4>3. ok => device' = D
        BY <2>1 DEF D
      <4> QED BY <4>2, <4>3 DEF SameAsStored, Start
    <3> QED BY <2>1, <2>2, <3>1, <3>2 DEF TransferInv
  <2> QED BY <1>3, <2>1, <2>3
<1> QED BY <1>2, <1>4, <1>5

(* A write that is carried out leaves the parts behind it alone.           *)
LEMMA StoredParts ==
  ASSUME TypeInv, PartsInv, command.dir = "out", UNCHANGED <<op, at, dest, command>>,
         step # "none", device' = StoredWith(command.block, command.buffer)
  PROVE  PartsInv'
<1> DEFINE first == Start(command.block)
<1>1. /\ \A p \in Positions : device'[p] # device[p] => p \in first..first + Size - 1
      /\ \A i \in 1..Size : device'[first + i - 1] = command.buffer[i]
  <2>1. /\ command.buffer \in Seq(Byte) /\ command.block \in 0..LastBlock
        /\ Start(command.block) + Len(command.buffer) <= DeviceEnd
    BY DEF TypeInv, CommandInv, ScsiTypeOK, Size
  <2> DEFINE D == StoredWith(command.block, command.buffer)
  <2>2. /\ \A p \in Positions : D[p] # device[p] =>
             p \in first..first + Len(command.buffer) - 1
        /\ \A i \in 1..Len(command.buffer) : D[first + i - 1] = command.buffer[i]
    BY <2>1, StoredBytesOf DEF TypeInv
  <2> HIDE DEF D, first
  <2>3. device' = D
    BY DEF D
  <2> QED BY <2>2, <2>3 DEF Size
<1>2. at = "patch" \/ (at = "rest" /\ op.kind # "read")
  BY DEF TypeInv, CallInv
<1>3. IsCall(op)
  BY <1>2 DEF TypeInv, CallInv
<1>4. CASE at = "patch"
  <2>1. ASSUME NEW i \in 1..BlockSize,
               i \notin Inside(op.offset) + 1
                          ..Inside(op.offset) + HeadLength(op)
        PROVE  command.buffer[i] = device'[first + i - 1]
    <3>1. Size = BlockSize
      BY <1>4 DEF TypeInv, CallInv
    <3> QED BY <1>1, <3>1
  <2> QED BY <1>4, <2>1 DEF PartsInv, Start
<1>5. CASE at = "rest"
  <2>1. op.kind # "read" /\ StoredUpTo(op, HeadLength(op))
    BY <1>2, <1>5 DEF PartsInv, MovedUpTo
  <2>2. /\ first = Position(op.offset) + HeadLength(op)
        /\ HeadLength(op) \in Nat /\ HeadLength(op) <= op.length
        /\ Position(op.offset) \in Nat
    BY <1>3, <1>5, CallGeometry DEF TypeInv, CallInv
  <2> HIDE DEF first
  <2>3. ASSUME NEW i \in 1..HeadLength(op)
        PROVE  device'[Position(op.offset) + i - 1] = Source(op)[i]
    <3> DEFINE p == Position(op.offset) + i - 1
    <3>1. op.length \in Nat
      BY <1>3, CallFields
    <3>2. i \in 1..op.length
      BY <2>2, <3>1
    <3>3. p \in Positions
      BY <1>3, <3>2, CallPositions
    <3>4. p < first
      BY <2>2
    <3>5. p \notin first..first + Size - 1
      BY <2>2, <3>4
    <3>6. device[p] = Source(op)[i]
      BY <2>1 DEF StoredUpTo
    <3> HIDE DEF p
    <3>7. device'[p] = device[p]
      BY <1>1, <3>3, <3>5
    <3> QED BY <3>6, <3>7 DEF p
  <2>4. StoredUpTo(op, HeadLength(op))'
    BY <2>3 DEF StoredUpTo
  <2> QED BY <1>5, <2>1, <2>4 DEF PartsInv, MovedUpTo
<1> QED BY <1>2, <1>4, <1>5

(* A step that stores nothing leaves the parts behind it alone.            *)
LEMMA KeptParts ==
  ASSUME TypeInv, PartsInv, Transfer, UNCHANGED <<op, at, dest, device>>
  PROVE  PartsInv'
<1>1. at # "returned"
  BY TransferStep DEF TypeInv, CallInv, SameCommand
<1>2. at = "patch" => command' = command
  BY TransferStep DEF TypeInv, CallInv, SameCommand
<1> QED BY <1>1, <1>2 DEF PartsInv, MovedUpTo, FoundUpTo, StoredUpTo, Start

(* Data goes out, or fails to.                                             *)
LEMMA DataOutContent ==
  ASSUME TypeInv, HistoryInv, TransferInv, PartsInv, Move, DataOut \/ DataOutFails
  PROVE  TransferInv' /\ PartsInv'
<1>1. /\ step = "data" /\ command.dir = "out"
      /\ UNCHANGED <<op, at, dest, command, csw>> /\ Transfer
  BY DataOutMoves, MoveHistory DEF TypeInv
<1>2. CASE /\ taking = <<>> /\ step' = "threw"
           /\ UNCHANGED <<device, taking, answers, moved, late>>
  <2>1. failed'
    BY <1>1, <1>2, OneAnswer, MoveHistory DEF TransferInv, Waits
  <2>2. TransferInv'
    BY <1>2, <2>1 DEF TransferInv
  <2> QED BY <1>1, <1>2, <2>2, KeptParts
<1>3. ASSUME taking # <<>>, NEW n \in Taken, Take(NextBytes(n)),
             \/ Moved(n) /\ UNCHANGED late
             \/ UNCHANGED moved /\ step' = "threw" /\ Late
      PROVE  TransferInv' /\ PartsInv'
  <2>1. taking' # <<>> => writer' = writer
    BY <1>3, MoveHistory
  <2>2. \/ Moved(n)
        \/ UNCHANGED moved /\ step' = "threw" /\ failed'
    <3>1. Late => failed'
      BY LateTypes, MoveHistory DEF TypeInv
    <3> QED BY <1>3, <3>1
  <2>3. /\ TransferInv'
        /\ \/ device' = device
           \/ device' = StoredWith(command.block, command.buffer)
    BY <1>1, <1>3, <2>1, <2>2, OutTakesContent
  <2>4. device' = device => PartsInv'
    BY <1>1, KeptParts
  <2>5. device' = StoredWith(command.block, command.buffer) => PartsInv'
    BY <1>1, StoredParts
  <2> QED BY <2>3, <2>4, <2>5
<1> QED BY <1>2, <1>3, DataOutMoves DEF TypeInv

(* A status that is passed says that the command was carried out.          *)
LEMMA ReadStatusContent ==
  ASSUME TypeInv, TransferInv, ReadStatus
  PROVE  TransferInv' /\ UNCHANGED <<device, command>>
<1>1. /\ step = "status" /\ step' = "done"
      /\ UNCHANGED <<device, taking, command, moved>>
      /\ \/ csw' = Head(answers).ok /\ answers' = Tail(answers)
         \/ UNCHANGED <<csw, answers>>
  BY DEF ReadStatus
<1>2. PICK ok \in BOOLEAN :
        answers = <<StatusAnswer(ok)>> /\ (ok => SameAsStored(command))
  BY <1>1 DEF TransferInv
<1>3. answers # <<>> /\ Head(answers).ok = ok
  BY <1>2, OneAnswer, AnswerFields
<1>4. answers' = <<>> /\ csw' => SameAsStored(command)'
  BY <1>1, <1>2, <1>3 DEF SameAsStored, Start
<1>5. taking' = <<>>
  BY <1>1 DEF TransferInv
<1> QED BY <1>1, <1>4, <1>5 DEF TransferInv

(* Every step of a command.                                                *)
LEMMA TransferContent ==
  ASSUME TypeInv, HistoryInv, TransferInv, PartsInv, Move
  PROVE  TransferInv' /\ PartsInv'
<1>1. CASE DataOut \/ DataOutFails
  BY <1>1, DataOutContent
<1>2. ASSUME UNCHANGED device  PROVE PartsInv'
  BY <1>2, MoveHistory, KeptParts
<1>3. CASE SendCommand
  BY <1>2, <1>3, SendCommandContent
<1>4. CASE DataIn /\ answers # <<>>
  BY <1>2, <1>4, DataInContent
<1>5. CASE DataIn /\ answers = <<>>
  <2>1. step = "data" /\ command.dir = "in" /\ step' = "threw" /\ device' = device
    BY <1>5 DEF DataIn, Throw
  <2>2. failed'
    BY <1>5, <2>1, MoveHistory DEF TransferInv
  <2>3. TransferInv'
    BY <2>1, <2>2 DEF TransferInv
  <2> QED BY <1>2, <2>1, <2>3
<1>6. CASE DataLate
  <2>1. step' = "threw" /\ device' = device /\ Late
    BY <1>6 DEF DataLate, Throw
  <2>2. failed'
    BY <2>1, LateTypes, MoveHistory DEF TypeInv
  <2>3. TransferInv'
    BY <2>1, <2>2 DEF TransferInv
  <2> QED BY <1>2, <2>1, <2>3
<1>7. CASE ReadStatus
  BY <1>2, <1>7, ReadStatusContent
<1> QED BY <1>1, <1>3, <1>4, <1>5, <1>6, <1>7, MoveHistory DEF Transfer

-----------------------------------------------------------------------------
(* What a call has moved: the steps of a call                              *)

(* Nothing is known of a command in progress when there is none.           *)
LEMMA NoneInProgress ==
  ASSUME step' = "none"
  PROVE  TransferInv'
BY DEF TransferInv

(* A command that was just issued has moved nothing.                       *)
LEMMA JustIssued ==
  ASSUME step' = "command", moved' = 0, answers' = <<>>, taking' = <<>>
  PROVE  TransferInv'
BY DEF TransferInv, Ready

(* A command that ended well did what it was issued for.                   *)
LEMMA DoneContent ==
  ASSUME TypeInv, ContentInv, Done, ~doubtful'
  PROVE  /\ ~doubtful /\ answers = <<>> /\ taking = <<>> /\ PartsInv
         /\ \A i \in 1..Size :
              command.buffer[i] = device[Start(command.block) + i - 1]
<1>1. ~doubtful /\ csw /\ answers = <<>> /\ step = "done"
  BY DEF Done, Passed
<1>2. SameAsStored(command) /\ PartsInv /\ taking = <<>>
  BY <1>1 DEF ContentInv, TransferInv
<1> QED BY <1>1, <1>2 DEF SameAsStored, Size

(* A call begins with nothing left to be received, or is doubtful.         *)
LEMMA BeginContent ==
  ASSUME TypeInv, ContentInv, NEW o, IsCall(o), Begin(o)
  PROVE  ContentInv'
<1>1. /\ CommandInv /\ op' = o /\ dest' = <<>>
      /\ doubtful' = ~Ready /\ at' \in {"head", "rest"}
  BY DEF Begin, TypeInv, CallInv
<1>2. step' = "command" /\ moved' = 0 /\ UNCHANGED <<answers, taking, device>>
  BY DEF Begin, IssueRest, Issue
<1>3. ThrewInv'
  BY <1>1 DEF ThrewInv
<1>4. ASSUME ~doubtful'  PROVE TransferInv'
  BY <1>1, <1>2, <1>4, JustIssued DEF Ready
<1>5. PartsInv'
  <2>1. ASSUME at' = "rest"  PROVE MovedUpTo(op, HeadLength(op))'
    <3>1. Inside(o.offset) = 0
      BY <2>1 DEF Begin
    <3>2. HeadLength(o) = 0
      BY <3>1, CallGeometry
    <3>3. Len(dest') = 0 /\ 1..0 = {}
      BY <1>1
    <3>4. HeadLength(op)' = 0
      BY <1>1, <3>2 DEF HeadLength, Inside
    <3>5. FoundUpTo(op, HeadLength(op))' /\ StoredUpTo(op, HeadLength(op))'
      BY <3>3, <3>4 DEF FoundUpTo, StoredUpTo
    <3> QED BY <3>5 DEF MovedUpTo
  <2> QED BY <1>1, <2>1 DEF PartsInv
<1> QED BY <1>3, <1>4, <1>5 DEF ContentInv

(* Whether the call goes on or ends, what it has moved is moved.           *)
LEMMA ContinueContent ==
  ASSUME TypeInv, ContentInv, Done, Continue, UNCHANGED op,
         ~doubtful' => MovedUpTo(op, HeadLength(op))'
  PROVE  ContentInv'
<1>1. /\ IsCall(op) /\ CommandInv
  BY DoneTypes DEF TypeInv
<1>2. ~doubtful' => answers = <<>> /\ taking = <<>>
  BY DoneContent
<1>3. at' \in {"rest", "returned"}
  BY DEF Continue, End
<1>4. ThrewInv'
  BY <1>3 DEF ThrewInv
<1>5. CASE Rest(op) > 0
  <2>1. at' = "rest" /\ IssueRest(op)
    BY <1>5 DEF Continue
  <2>2. step' = "command" /\ moved' = 0 /\ UNCHANGED <<answers, taking, device>>
    BY <2>1 DEF IssueRest, Issue
  <2>3. ~doubtful' => TransferInv'
    BY <1>2, <2>2, JustIssued
  <2>4. ~doubtful' => PartsInv'
    BY <2>1 DEF PartsInv
  <2> QED BY <1>4, <2>3, <2>4 DEF ContentInv
<1>6. CASE ~(Rest(op) > 0)
  <2>1. at' = "returned" /\ step' = "none"
    BY <1>6 DEF Continue, End
  <2>2. op.length = HeadLength(op)
    BY <1>1, <1>6, CallGeometry
  <2>3. ~doubtful' => MovedUpTo(op, op.length)'
    BY <2>2 DEF HeadLength, Inside, MovedUpTo, FoundUpTo, StoredUpTo
  <2>4. ~doubtful' => PartsInv'
    BY <2>1, <2>3 DEF PartsInv
  <2> QED BY <1>4, <2>1, <2>4, NoneInProgress DEF ContentInv
<1> QED BY <1>5, <1>6

(* The bytes of a read in its first block are found.                       *)
LEMMA HeadReadContent ==
  ASSUME TypeInv, ContentInv, HeadRead
  PROVE  ContentInv'
<1>1. /\ Done /\ at = "head" /\ UNCHANGED op /\ op.kind = "read"
  BY DEF HeadRead
<1>2. CASE Overflows(op)
  <2>1. at' = "threw" /\ step' = "none"
    BY <1>2 DEF HeadRead, End
  <2>2. ThrewInv'
    BY <1>1, <1>2 DEF ThrewInv, Overflows, Inside
  <2>3. PartsInv'
    BY <2>1 DEF PartsInv
  <2> QED BY <2>1, <2>2, <2>3, NoneInProgress DEF ContentInv
<1>3. CASE ~Overflows(op)
  <2> DEFINE s == Inside(op.offset)  h == HeadLength(op)
             first == Start(command.block)
  <2>1. /\ dest' = SubSeq(command.buffer, s + 1, BlockSize) /\ Continue
    BY <1>3 DEF HeadRead
  <2>2. /\ IsCall(op) /\ Size = BlockSize /\ s # 0
        /\ command.block = BlockOf(op.offset)
    BY <1>1, DoneTypes DEF TypeInv, CallInv
  <2>3. /\ s \in Nat /\ h \in Nat /\ s + h = BlockSize /\ first \in Nat
        /\ Position(op.offset) = first + s
    <3>1. op.length >= BlockSize - s
      BY <1>1, <1>3, <2>2, CallFields, CallGeometry, Numbers DEF Overflows
    <3> QED BY <2>2, <3>1, CallGeometry
  <2>4. Len(dest') = h /\ \A i \in 1..h : dest'[i] = command.buffer[s + i]
    <3>1. /\ Len(dest') = BlockSize - s
          /\ \A i \in 1..BlockSize - s : dest'[i] = command.buffer[s + i]
      BY <1>1, <2>1, HeadBytes
    <3>2. BlockSize - s = h
      BY <2>3, Numbers
    <3> QED BY <3>1, <3>2
  <2>5. device' = device
    BY <2>1 DEF Continue, End, IssueRest, Issue
  <2>6. ASSUME ~doubtful'  PROVE MovedUpTo(op, HeadLength(op))'
    <3>1. \A i \in 1..Size : command.buffer[i] = device[first + i - 1]
      BY <1>1, <2>6, DoneContent
    <3> HIDE DEF first, s, h
    <3>2. ASSUME NEW i \in 1..h
          PROVE  dest'[i] = device[Position(op.offset) + i - 1]
      <4>1. s + i \in 1..Size
        BY <2>2, <2>3
      <4>2. first + (s + i) - 1 = Position(op.offset) + i - 1
        BY <2>3
      <4> QED BY <2>4, <3>1, <4>1, <4>2
    <3>3. FoundUpTo(op, HeadLength(op))'
      BY <1>1, <2>4, <2>5, <3>2 DEF FoundUpTo, h, HeadLength, Inside
    <3> QED BY <1>1, <3>3 DEF MovedUpTo
  <2> QED BY <1>1, <2>1, <2>6, ContinueContent
<1> QED BY <1>2, <1>3

(* The other bytes of the first block are in the buffer as they are stored.*)
LEMMA PatchHeadContent ==
  ASSUME TypeInv, ContentInv, PatchHead
  PROVE  ContentInv'
<1>1. /\ Done /\ at = "head" /\ at' = "patch" /\ UNCHANGED <<op, dest>>
  BY DEF PatchHead
<1>2. /\ command'.block = command.block /\ step' = "command" /\ moved' = 0
      /\ UNCHANGED <<device, taking, answers, csw>>
      /\ \A i \in 1..BlockSize :
           i \notin Inside(op.offset) + 1
                      ..Inside(op.offset) + HeadLength(op) =>
             command'.buffer[i] = command.buffer[i]
  BY PatchIssued DEF PatchHead, Issue
<1>3. ThrewInv'
  BY <1>1 DEF ThrewInv
<1>4. ASSUME ~doubtful'  PROVE TransferInv' /\ PartsInv'
  <2>1. /\ answers = <<>> /\ taking = <<>>
        /\ \A i \in 1..Size :
             command.buffer[i] = device[Start(command.block) + i - 1]
    BY <1>1, <1>4, DoneContent
  <2>2. Size = BlockSize
    BY <1>1 DEF TypeInv, CallInv
  <2>3. TransferInv'
    BY <1>2, <2>1, JustIssued
  <2>4. ASSUME NEW i \in 1..BlockSize,
               i \notin Inside(op.offset) + 1
                          ..Inside(op.offset) + HeadLength(op)
        PROVE  command'.buffer[i] = device'[Start(command'.block) + i - 1]
    BY <1>2, <2>1, <2>2, <2>4
  <2>5. PartsInv'
    BY <1>1, <2>4 DEF PartsInv, Start
  <2> QED BY <2>3, <2>5
<1> QED BY <1>3, <1>4 DEF ContentInv

(* The bytes of a write in its first block are stored.                     *)
LEMMA HeadWrittenContent ==
  ASSUME TypeInv, ContentInv, HeadWritten
  PROVE  ContentInv'
<1> DEFINE s == Inside(op.offset)  h == HeadLength(op)
           first == Start(command.block)
<1>1. /\ Done /\ Continue /\ at = "patch" /\ UNCHANGED <<op, dest>>
  BY DEF HeadWritten
<1>2. /\ IsCall(op) /\ Size = BlockSize /\ s # 0
      /\ command.block = BlockOf(op.offset) /\ op.kind = "write"
      /\ \A i \in 1..h : command.buffer[s + i] = Source(op)[i]
  BY <1>1, DoneTypes DEF TypeInv, CallInv, BufferInv
<1>3. /\ s \in Nat /\ h \in Nat /\ s + h <= BlockSize /\ first \in Nat
      /\ Position(op.offset) = first + s
  BY <1>2, CallGeometry
<1>4. device' = device
  BY <1>1 DEF Continue, End, IssueRest, Issue
<1>5. ASSUME ~doubtful'  PROVE MovedUpTo(op, HeadLength(op))'
  <2>1. \A i \in 1..Size : command.buffer[i] = device[first + i - 1]
    BY <1>1, <1>5, DoneContent
  <2> HIDE DEF first, s, h
  <2>2. ASSUME NEW i \in 1..h
        PROVE  device[Position(op.offset) + i - 1] = Source(op)[i]
    <3>1. s + i \in 1..Size
      BY <1>2, <1>3, Numbers
    <3>2. first + (s + i) - 1 = Position(op.offset) + i - 1
      BY <1>3
    <3> QED BY <1>2, <2>1, <3>1, <3>2
  <2>3. StoredUpTo(op, HeadLength(op))'
    BY <1>1, <1>4, <2>2 DEF StoredUpTo, h, HeadLength, Inside
  <2>4. op'.kind # "read"
    BY <1>1, <1>2
  <2> QED BY <2>3, <2>4 DEF MovedUpTo
<1> QED BY <1>1, <1>5, ContinueContent

(* All bytes of the call are moved.                                        *)
LEMMA RestDoneContent ==
  ASSUME TypeInv, ContentInv, RestDone
  PROVE  ContentInv'
<1> DEFINE h == HeadLength(op)  r == Rest(op)  first == Start(command.block)
           b == command.buffer
<1>1. /\ Done /\ at = "rest" /\ End("returned") /\ UNCHANGED op
      /\ dest' = IF op.kind = "read" THEN dest \o SubSeq(b, 1, r) ELSE dest
  BY DEF RestDone
<1>2. at' = "returned" /\ step' = "none" /\ UNCHANGED device
  BY <1>1 DEF End
<1>3. /\ IsCall(op) /\ Size = Rounded(r) /\ r > 0
      /\ command.block = RestBlock(op)
  BY <1>1, DoneTypes DEF TypeInv, CallInv
<1>4. /\ h \in Nat /\ r \in Nat /\ op.length = h + r /\ first \in Nat
      /\ first = Position(op.offset) + h /\ Position(op.offset) \in Nat
      /\ Size \in Nat /\ Size >= r
  BY <1>3, CallGeometry
<1>5. ThrewInv'
  BY <1>2 DEF ThrewInv
<1>6. ASSUME ~doubtful'  PROVE MovedUpTo(op, op.length)'
  <2>1. /\ MovedUpTo(op, h)
        /\ \A i \in 1..Size : b[i] = device[first + i - 1]
    BY <1>1, <1>6, DoneContent DEF PartsInv
  <2>2. CASE op.kind = "read"
    <3>1. Len(dest) = h /\ \A i \in 1..h : dest[i] = device[Position(op.offset) + i - 1]
      BY <2>1, <2>2 DEF MovedUpTo, FoundUpTo
    <3>2. /\ Len(dest') = h + r
          /\ \A i \in 1..h : dest'[i] = dest[i]
          /\ \A i \in 1..r : dest'[h + i] = b[i]
      BY <1>1, <2>2, <3>1, RestBytes
    <3> HIDE DEF first, h, r, b
    <3>3. ASSUME NEW i \in 1..op.length
          PROVE  dest'[i] = device[Position(op.offset) + i - 1]
      <4>1. CASE i <= h
        <5>1. i \in 1..h
          BY <1>4, <4>1
        <5> QED BY <3>1, <3>2, <5>1
      <4>2. CASE ~(i <= h)
        <5>1. /\ i - h \in 1..r /\ i - h \in 1..Size /\ h + (i - h) = i
              /\ first + (i - h) - 1 = Position(op.offset) + i - 1
          BY <1>4, <4>2
        <5> QED BY <2>1, <3>2, <5>1
      <4> QED BY <4>1, <4>2
    <3>4. FoundUpTo(op, op.length)'
      BY <1>1, <1>2, <1>4, <3>2, <3>3 DEF FoundUpTo
    <3> QED BY <1>1, <2>2, <3>4 DEF MovedUpTo
  <2>3. CASE op.kind # "read"
    <3>1. \A i \in 1..h : device[Position(op.offset) + i - 1] = Source(op)[i]
      BY <2>1, <2>3 DEF MovedUpTo, StoredUpTo
    <3>2. \A i \in 1..Size : i <= r => b[i] = Source(op)[h + i]
      <4>1. op.kind = "write"
        BY <1>3, <2>3, CallFields
      <4> QED BY <1>1, <4>1 DEF TypeInv, BufferInv
    <3> HIDE DEF first, h, r, b
    <3>3. ASSUME NEW i \in 1..op.length
          PROVE  device[Position(op.offset) + i - 1] = Source(op)[i]
      <4>1. CASE i <= h
        <5>1. i \in 1..h
          BY <1>4, <4>1
        <5> QED BY <3>1, <5>1
      <4>2. CASE ~(i <= h)
        <5>1. /\ i - h \in 1..r /\ i - h \in 1..Size /\ h + (i - h) = i
              /\ i - h <= r
              /\ first + (i - h) - 1 = Position(op.offset) + i - 1
          BY <1>4, <4>2
        <5> QED BY <2>1, <3>2, <5>1
      <4> QED BY <4>1, <4>2
    <3>4. StoredUpTo(op, op.length)'
      BY <1>1, <1>2, <3>3 DEF StoredUpTo
    <3> QED BY <1>1, <2>3, <3>4 DEF MovedUpTo
  <2> QED BY <2>2, <2>3
<1>7. ~doubtful' => PartsInv'
  BY <1>2, <1>6 DEF PartsInv
<1> QED BY <1>2, <1>5, <1>7, NoneInProgress DEF ContentInv

(* A transfer throws only if one has failed.                               *)
LEMMA ThrownContent ==
  ASSUME TypeInv, ContentInv, Thrown
  PROVE  ContentInv'
<1>1. /\ step = "threw" /\ at' = "threw" /\ step' = "none"
      /\ UNCHANGED <<op, dest, doubtful, failed>>
  BY DEF Thrown, End, historyVars
<1>2. ~doubtful => failed
  BY <1>1 DEF ContentInv, TransferInv
<1>3. ThrewInv'
  BY <1>1, <1>2 DEF ThrewInv
<1>4. PartsInv'
  BY <1>1 DEF PartsInv
<1> QED BY <1>1, <1>3, <1>4, NoneInProgress DEF ContentInv

(* Nothing is moved before any call.                                       *)
LEMMA InitContent == Init => ContentInv
BY DEF Init, ScsiInit, ContentInv, TransferInv, PartsInv, ThrewInv

(* Every step keeps what is known of the bytes moved.                      *)
LEMMA StepContent == TypeInv /\ HistoryInv /\ ContentInv /\ [Next]_vars => ContentInv'
<1> SUFFICES ASSUME TypeInv, HistoryInv, ContentInv, [Next]_vars PROVE ContentInv'
  OBVIOUS
<1>1. CASE Read
  BY <1>1, BeginContent DEF Read, IsCall
<1>2. CASE Write
  BY <1>2, BeginContent DEF Write, IsCall
<1>3. CASE Move
  <2>1. ~doubtful' => TransferInv' /\ PartsInv'
    BY <1>3, TransferContent, MoveHistory DEF ContentInv
  <2>2. at' # "threw"
    BY <1>3, TransferStep, MoveHistory DEF TypeInv, CallInv, SameCommand
  <2>3. ThrewInv'
    BY <2>2 DEF ThrewInv
  <2> QED BY <2>1, <2>3 DEF ContentInv
<1>4. CASE HeadRead
  BY <1>4, HeadReadContent
<1>5. CASE PatchHead
  BY <1>5, PatchHeadContent
<1>6. CASE HeadWritten
  BY <1>6, HeadWrittenContent
<1>7. CASE RestDone
  BY <1>7, RestDoneContent
<1>8. CASE Thrown
  BY <1>8, ThrownContent
<1>9. CASE UNCHANGED vars
  <2>1. /\ UNCHANGED <<device, taking, answers, command, moved, step, csw>>
        /\ UNCHANGED <<op, at, dest, doubtful, failed, writer>>
    BY <1>9 DEF vars, scsiVars, historyVars
  <2>2. TransferInv => TransferInv'
    BY <2>1 DEF TransferInv, SameAsStored, Start, Size, Ready, Waits, DeviceEnd
  <2>3. PartsInv => PartsInv'
    BY <2>1 DEF PartsInv, MovedUpTo, FoundUpTo, StoredUpTo, Start
  <2>4. ThrewInv => ThrewInv'
    BY <2>1 DEF ThrewInv, Overflows, Inside
  <2> QED BY <2>1, <2>2, <2>3, <2>4 DEF ContentInv
<1> QED BY <1>1, <1>2, <1>3, <1>4, <1>5, <1>6, <1>7, <1>8, <1>9 DEF Next

(* No command is in progress, and the device waits for nothing, at first.  *)
LEMMA InitHistory == Init => HistoryInv
BY DEF Init, ScsiInit, HistoryInv

(* The blocks of a write that the device has taken.                        *)
LEMMA WriterBlocks ==
  ASSUME TypeInv, step = "command", command.dir = "out"
  PROVE  /\ op \in WriteCalls
         /\ Start(BlockOf(op.offset)) <= Start(command.block)
         /\ Start(command.block) + Size <= Start(RestBlock(op)) + Rounded(Rest(op))
<1>1. at = "patch" \/ at = "rest"
  BY DEF TypeInv, CallInv
<1>2. IsCall(op) /\ op.kind = "write"
  <2>1. IsCall(op) /\ (at = "rest" => op.kind # "read") /\ (at = "patch" => op.kind = "write")
    BY <1>1 DEF TypeInv, CallInv
  <2> QED BY <1>1, <2>1, CallFields
<1>3. op \in WriteCalls
  BY <1>2 DEF IsCall, Calls
<1>4. /\ Start(BlockOf(op.offset)) \in Nat /\ Inside(op.offset) \in Nat
      /\ HeadLength(op) \in Nat /\ Rounded(Rest(op)) \in Nat
      /\ Position(op.offset) = Start(BlockOf(op.offset)) + Inside(op.offset)
      /\ Start(RestBlock(op)) \in Nat
  BY <1>2, CallGeometry
<1>5. CASE at = "patch"
  <2>1. /\ command.block = BlockOf(op.offset) /\ Size = BlockSize
        /\ Inside(op.offset) # 0
    BY <1>5 DEF TypeInv, CallInv
  <2>2. Start(RestBlock(op)) = Start(BlockOf(op.offset)) + BlockSize
    BY <1>2, <2>1, CallGeometry
  <2> DEFINE a == Start(BlockOf(op.offset))  r == Start(RestBlock(op))
             n == Rounded(Rest(op))
  <2>3. a \in Nat /\ n \in Nat /\ r = a + BlockSize
    BY <1>4, <2>2
  <2> HIDE DEF a, r, n
  <2>4. a <= a /\ a + BlockSize <= r + n
    BY <2>3, Numbers
  <2> QED BY <1>3, <2>1, <2>4 DEF a, r, n
<1>6. CASE at = "rest"
  <2>1. command.block = RestBlock(op) /\ Size = Rounded(Rest(op)) /\ Rest(op) > 0
    BY <1>6 DEF TypeInv, CallInv
  <2>2. Start(RestBlock(op)) = Position(op.offset) + HeadLength(op)
    BY <1>2, <2>1, CallGeometry
  <2> DEFINE a == Start(BlockOf(op.offset))  r == Start(RestBlock(op))
             n == Rounded(Rest(op))
  <2>3. a \in Nat /\ n \in Nat /\ r \in Nat /\ a <= r
    BY <1>4, <2>2
  <2> HIDE DEF a, r, n
  <2>4. r + n <= r + n
    BY <2>3
  <2> QED BY <1>3, <2>1, <2>3, <2>4 DEF a, r, n
<1> QED BY <1>1, <1>5, <1>6

(* What the device waits for stays the same while it waits.                *)
LEMMA SameWaiting ==
  ASSUME TypeInv, Transfer, taking # <<>>, taking' # <<>>
  PROVE  taking'[1].block = taking[1].block /\ taking'[1].size = taking[1].size
<1>1. PICK b, n, bs : Waits(b, n, bs)
  BY DEF TypeInv, CommandInv, TakingOK
<1>2. ASSUME NEW bytes \in Seq(Byte), Len(bytes) <= Expected, Take(bytes)
      PROVE  taking'[1].block = taking[1].block /\ taking'[1].size = taking[1].size
  <2>1. TakesMore(b, n, bs \o bytes)
    BY <1>1, <1>2, Takes DEF TypeInv, TakesLast
  <2>2. taking' = <<Waiting(b, n, bs \o bytes)>> /\ taking = <<Waiting(b, n, bs)>>
    BY <1>1, <2>1 DEF TakesMore, Waits
  <2> QED BY <2>2, OneAnswer, WaitingFields
<1>3. \/ taking' = taking
      \/ \E bytes \in Seq(Byte) : Len(bytes) <= Expected /\ Take(bytes)
  <2>1. CASE SendCommand
    <3>1. taking' = taking \/ Take(<<CommandByte>>)
      BY <2>1 DEF SendCommand, Ready
    <3> QED BY <3>1, CommandAsData DEF TypeInv
  <2>2. CASE DataOut \/ DataOutFails
    BY <2>2, DataOutMoves, TakenBytes DEF TypeInv
  <2>3. CASE DataIn \/ DataLate \/ ReadStatus
    BY <2>3 DEF DataIn, DataLate, ReadStatus
  <2> QED BY <2>1, <2>2, <2>3 DEF Transfer
<1> QED BY <1>2, <1>3

(* A device that begins to wait was ready, and the command is a write.     *)
LEMMA BeginsToWait ==
  ASSUME TypeInv, Transfer, taking = <<>>, taking' # <<>>
  PROVE  /\ step = "command" /\ command.dir = "out"
         /\ taking'[1].block = command.block /\ taking'[1].size = Size
<1>1. DataOut \/ DataOutFails => FALSE
  BY DataOutMoves DEF TypeInv
<1>2. SendCommand
  BY <1>1 DEF Transfer, DataIn, DataLate, ReadStatus
<1>3. step = "command" /\ Accept
  BY <1>2 DEF SendCommand
<1>4. /\ command.dir = "out"
      /\ taking' = <<[block |-> command.block, size |-> Size, bytes |-> <<>>]>>
  BY <1>3 DEF Accept
<1> QED BY <1>3, <1>4

(* Every step keeps what is known of the writer.                           *)
LEMMA StepHistory == TypeInv /\ HistoryInv /\ [Next]_vars => HistoryInv'
<1> SUFFICES ASSUME TypeInv, HistoryInv, [Next]_vars PROVE HistoryInv'
  OBVIOUS
<1>1. ASSUME UNCHANGED <<taking, writer>>, failed' \in BOOLEAN  PROVE HistoryInv'
  BY <1>1 DEF HistoryInv, Start, BlockOf, RestBlock, Rest, Rounded, HeadLength, Inside
<1>2. CASE Move
  <2>1. /\ Transfer /\ failed' \in BOOLEAN
        /\ taking' # <<>> /\ taking = <<>> => writer' = op
        /\ taking' # <<>> /\ taking # <<>> => writer' = writer
        /\ taking' = <<>> => writer' = NoOp
    BY <1>2, MoveHistory
  <2>2. CASE taking' = <<>>
    BY <2>1, <2>2 DEF HistoryInv
  <2>3. CASE taking' # <<>> /\ taking = <<>>
    <3>1. /\ step = "command" /\ command.dir = "out"
          /\ taking'[1].block = command.block /\ taking'[1].size = Size
      BY <2>1, <2>3, BeginsToWait
    <3>2. /\ op \in WriteCalls
          /\ Start(BlockOf(op.offset)) <= Start(command.block)
          /\ Start(command.block) + Size <= Start(RestBlock(op)) + Rounded(Rest(op))
      BY <3>1, WriterBlocks
    <3>3. writer' = op
      BY <2>1, <2>3
    <3> QED BY <2>1, <2>3, <3>1, <3>2, <3>3
            DEF HistoryInv, Start, BlockOf, RestBlock, Rest, Rounded, HeadLength, Inside
  <2>4. CASE taking' # <<>> /\ taking # <<>>
    <3>1. taking'[1].block = taking[1].block /\ taking'[1].size = taking[1].size
      BY <2>1, <2>4, SameWaiting
    <3>2. writer' = writer
      BY <2>1, <2>4
    <3> QED BY <2>1, <2>4, <3>1, <3>2
            DEF HistoryInv, Start, BlockOf, RestBlock, Rest, Rounded, HeadLength, Inside
  <2> QED BY <2>2, <2>3, <2>4
<1>3. CASE Read \/ Write
  <2>1. UNCHANGED <<taking, writer>> /\ failed' = FALSE
    BY <1>3 DEF Read, Write, Begin, IssueRest, Issue
  <2> QED BY <1>1, <2>1
<1>4. CASE HeadRead \/ PatchHead \/ HeadWritten \/ RestDone
  <2>1. UNCHANGED <<failed, writer, taking>>
    BY <1>4 DEF HeadRead, PatchHead, HeadWritten, RestDone, Done, Continue, End,
                IssueRest, Issue
  <2> QED BY <1>1, <2>1 DEF HistoryInv
<1>5. CASE Thrown \/ UNCHANGED vars
  <2>1. UNCHANGED <<failed, writer, taking>>
    BY <1>5 DEF Thrown, End, vars, scsiVars, historyVars
  <2> QED BY <1>1, <2>1 DEF HistoryInv
<1> QED BY <1>2, <1>3, <1>4, <1>5 DEF Next

(* The inductive invariant.                                                *)
LEMMA Invariant == Spec => []IInv
<1>1. Init => IInv
  BY InitTypes, InitHistory, InitContent DEF IInv
<1>2. IInv /\ [Next]_vars => IInv'
  BY StepTypes, StepHistory, StepContent DEF IInv
<1> QED BY <1>1, <1>2, PTL DEF Spec

(* Everything has its type, in every state: transport, call and device.    *)
THEOREM TypeCorrect == Spec => []TypeOK
<1>1. TypeInv /\ HistoryInv => TypeOK
  BY DEF TypeInv, CommandInv, CallInv, HistoryInv, IsCall, TypeOK
<1> QED BY <1>1, Invariant, PTL DEF IInv

(* A call that returns has moved each of its bytes, and a call throws only *)
(* for a reason, wherever it starts and ends and however often its data    *)
(* is cut: Partition.read and write, ScsiBlockDevice.transferCommand.      *)
THEOREM CallsDoTheirWork == Spec => []CallOutcome
<1>1. ASSUME IInv  PROVE CallOutcome
  <2> DEFINE stored == [i \in 1..op.length |->
                          device[Position(op.offset) + i - 1]]
  <2>1. at = "threw" => doubtful \/ failed \/ Overflows(op)
    BY <1>1 DEF IInv, ContentInv, ThrewInv
  <2>2. ASSUME at = "returned", ~doubtful
        PROVE  stored = IF op.kind = "read" THEN dest ELSE Source(op)
    <3>1. MovedUpTo(op, op.length) /\ dest \in Seq(Byte) /\ IsCall(op)
      BY <1>1, <2>2 DEF IInv, ContentInv, PartsInv, TypeInv, CallInv
    <3>2. CASE op.kind = "read"
      <4>1. /\ Len(dest) = op.length
            /\ \A i \in 1..op.length :
                 dest[i] = device[Position(op.offset) + i - 1]
        BY <3>1, <3>2 DEF MovedUpTo, FoundUpTo
      <4>2. dest = [i \in 1..Len(dest) |-> dest[i]]
        BY <3>1, SeqIsFunction
      <4> QED BY <3>2, <4>1, <4>2
    <3>3. CASE op.kind # "read"
      <4>1. \A i \in 1..op.length :
              device[Position(op.offset) + i - 1] = Source(op)[i]
        BY <3>1, <3>3 DEF MovedUpTo, StoredUpTo
      <4>2. Source(op) = [i \in 1..op.length |-> Source(op)[i]]
        BY DEF Source
      <4> HIDE DEF Source
      <4> QED BY <3>3, <4>1, <4>2
    <3> QED BY <3>2, <3>3
  <2> QED BY <2>1, <2>2 DEF CallOutcome
<1> QED BY <1>1, Invariant, PTL

-----------------------------------------------------------------------------
(* What a call may change                                                  *)

(* Only a device that takes the last bytes of a write changes what is      *)
(* stored, and they come in a command or as data.                          *)
LEMMA OthersKeepDevice ==
  ASSUME IInv, [Next]_vars, device' # device
  PROVE  /\ Move /\ taking # <<>> /\ (SendCommand \/ DataOut \/ DataOutFails)
         /\ \E bytes \in Seq(Byte) : Len(bytes) <= Expected /\ Take(bytes)
<1>1. ASSUME NEW o, Begin(o)  PROVE device' = device
  BY <1>1 DEF Begin, IssueRest, Issue
<1>2. Read \/ Write => device' = device
  BY <1>1 DEF Read, Write
<1>3. ASSUME NEW how, End(how)  PROVE device' = device
  BY <1>3 DEF End
<1>4. Continue => device' = device
  BY <1>3 DEF Continue, IssueRest, Issue
<1>5. HeadRead \/ HeadWritten \/ RestDone \/ Thrown => device' = device
  BY <1>3, <1>4 DEF HeadRead, HeadWritten, RestDone, Thrown
<1>6. PatchHead => device' = device
  BY DEF PatchHead, Issue
<1>7. Move
  BY <1>2, <1>5, <1>6 DEF Next, vars, scsiVars
<1>8. CASE SendCommand
  <2>1. taking # <<>> /\ Take(<<CommandByte>>)
    BY <1>8 DEF SendCommand
  <2> QED BY <1>7, <1>8, <2>1, CommandAsData DEF IInv, TypeInv
<1>9. CASE DataOut \/ DataOutFails
  <2>1. taking # <<>> /\ \E n \in Taken : Take(NextBytes(n))
    BY <1>9, DataOutMoves DEF IInv, TypeInv
  <2>2. PICK n \in Taken : Take(NextBytes(n))
    BY <2>1
  <2>3. NextBytes(n) \in Seq(Byte) /\ Len(NextBytes(n)) <= Expected
    BY <2>1, TakenBytes DEF IInv, TypeInv
  <2> QED BY <1>7, <1>9, <2>1, <2>2, <2>3
<1>10. DataIn \/ DataLate \/ ReadStatus => device' = device
  BY DEF DataIn, DataLate, ReadStatus
<1> QED BY <1>7, <1>8, <1>9, <1>10 DEF Move, Transfer

(* A byte that changes is one the device was to store.                     *)
LEMMA ChangedPlace ==
  ASSUME IInv, taking # <<>>, NEW bytes \in Seq(Byte), Len(bytes) <= Expected,
         Take(bytes), NEW p \in Positions, device'[p] # device[p]
  PROVE  writer.kind = "write" /\ p \in CallBlocks(writer)
<1>1. PICK b, n, bs : Waits(b, n, bs)
  BY DEF IInv, TypeInv, CommandInv, TakingOK
<1> DEFINE all == bs \o bytes
<1>2. /\ all \in Seq(Byte) /\ Len(all) = n /\ TakesLast(b, all)
  <2>1. ~TakesMore(b, n, all)
    BY DEF TakesMore
  <2> QED BY <1>1, <2>1, Takes DEF IInv, TypeInv
<1> HIDE DEF all
<1>3. b \in 0..LastBlock /\ Start(b) + Len(all) <= DeviceEnd /\ n \in Nat
  BY <1>1, <1>2 DEF Waits
<1>4. p \in Start(b)..Start(b) + n - 1
  <2> DEFINE D == StoredWith(b, all)
  <2>1. \A q \in Positions : D[q] # device[q] => q \in Start(b)..Start(b) + Len(all) - 1
    BY <1>2, <1>3, StoredBytesOf DEF IInv, TypeInv
  <2>2. device' = D
    BY <1>2 DEF TakesLast
  <2> HIDE DEF D
  <2> QED BY <1>2, <2>1, <2>2
<1>5. taking[1].block = b /\ taking[1].size = n
  BY <1>1, OneAnswer, WaitingFields DEF Waits
<1>6. /\ writer \in WriteCalls /\ IsCall(writer)
      /\ Start(BlockOf(writer.offset)) <= Start(b)
      /\ Start(b) + n <= Start(RestBlock(writer)) + Rounded(Rest(writer))
  BY <1>5 DEF IInv, HistoryInv, IsCall
<1>7. writer.kind = "write"
  BY <1>6 DEF WriteCalls, Calls
<1>8. CallBlocks(writer) = Start(BlockOf(writer.offset))
                             ..Start(RestBlock(writer)) + Rounded(Rest(writer)) - 1
  BY DEF CallBlocks, Start
<1> DEFINE x == Start(BlockOf(writer.offset))
           y == Start(RestBlock(writer)) + Rounded(Rest(writer))
<1>9. x \in Nat /\ y \in Nat /\ Start(b) \in Nat
  <2>1. b * BlockSize \in Nat
    BY <1>3, Numbers, BlocksAdd
  <2> QED BY <1>6, <2>1, CallGeometry DEF Start
<1>11. CallBlocks(writer) = x..y - 1
  <2>1. Start(RestBlock(writer)) \in Nat /\ Rounded(Rest(writer)) \in Nat
    BY <1>6, CallGeometry
  <2>2. Start(RestBlock(writer)) + (Rounded(Rest(writer)) - 1) = y - 1
    BY <2>1
  <2> QED BY <1>8, <2>2
<1>10. p \in x..y - 1
  <2>1. x <= Start(b) /\ Start(b) + n <= y
    BY <1>6
  <2> HIDE DEF x, y
  <2> QED BY <1>3, <1>4, <1>9, <2>1
<1> QED BY Zenon, <1>7, <1>10, <1>11

(* Where nothing went wrong it is the call's own, or a zero behind it.     *)
LEMMA ChangedByte ==
  ASSUME IInv, ~doubtful, taking # <<>>, Move, DataOut \/ DataOutFails,
         NEW p \in Positions, device'[p] # device[p]
  PROVE  writer = op /\ p >= Position(op.offset) /\ device'[p] = OwnByte(op, p)
<1> DEFINE first == Start(command.block)  i == p - first + 1
           P == Position(op.offset)  s == Inside(op.offset)
           h == HeadLength(op)  r == Rest(op)
           b == BlockOf(op.offset)  rb == RestBlock(op)
<1>1. /\ TypeInv /\ HistoryInv /\ TransferInv /\ PartsInv
      /\ step = "data" /\ command.dir = "out"
      /\ UNCHANGED <<op, command, csw>>
  BY DataOutMoves, MoveHistory DEF IInv, TypeInv, ContentInv
<1>2. writer = op
  BY <1>1 DEF TransferInv
<1>3. device' = StoredWith(command.block, command.buffer)
  <2>1. PICK n \in Taken : Take(NextBytes(n))
    BY <1>1, DataOutMoves DEF TypeInv
  <2>2. Waits(command.block, Size, SubSeq(command.buffer, 1, moved))
    BY <1>1 DEF TransferInv
  <2>3. TakesLast(command.block, command.buffer)
    BY <1>1, <2>1, <2>2, OutTakes DEF TakesMore
  <2> QED BY <2>3 DEF TakesLast
<1>4. p \in first..first + Size - 1 /\ device'[p] = command.buffer[i]
  <2>1. /\ command.buffer \in Seq(Byte) /\ command.block \in 0..LastBlock
        /\ Start(command.block) + Len(command.buffer) <= DeviceEnd
    BY <1>1 DEF TypeInv, CommandInv, ScsiTypeOK, Size
  <2> DEFINE D == StoredWith(command.block, command.buffer)
  <2>2. D[p] # device[p] =>
          /\ p \in first..first + Len(command.buffer) - 1
          /\ D[p] = command.buffer[p - first + 1]
    BY <1>1, <2>1, StoredBytesOf DEF TypeInv
  <2>3. device' = D
    BY <1>3
  <2> HIDE DEF D, first
  <2> QED BY <2>2, <2>3 DEF Size
<1>5. at = "patch" \/ at = "rest"
  BY <1>1 DEF TypeInv, CallInv
<1>6. IsCall(op) /\ op.kind = "write"
  <2>1. /\ IsCall(op) /\ at = "rest" => op.kind # "read"
    BY <1>1, <1>5 DEF TypeInv, CallInv
  <2>2. at = "patch" => op.kind = "write"
    BY <1>1 DEF TypeInv, CallInv
  <2> QED BY <1>1, <1>5, <2>1, <2>2, CallFields DEF TypeInv, CallInv
<1>7. /\ s \in Nat /\ s < BlockSize /\ h \in Nat /\ r \in Nat
      /\ op.length = h + r /\ Start(b) \in Nat /\ P = Start(b) + s
      /\ Start(rb) \in Nat /\ Rounded(r) \in Nat /\ Rounded(r) >= r
  BY <1>6, CallGeometry
<1>8. first \in Nat /\ Size \in Nat
  BY <1>1, CommandTypes DEF TypeInv
<1>9. /\ i \in 1..Size /\ p = first + i - 1 /\ p \in Nat
  BY <1>4, <1>8
<1>10. OwnByte(op, p) = IF p + 1 - P \in 1..op.length
                          THEN Source(op)[p + 1 - P] ELSE Padding
  BY DEF OwnByte
<1>11. CASE at = "patch"
  <2>1. /\ Size = BlockSize /\ first = Start(b) /\ s # 0
        /\ \A k \in 1..h : command.buffer[s + k] = Source(op)[k]
    BY <1>1, <1>11 DEF TypeInv, CallInv, BufferInv
  <2>2. \A k \in 1..BlockSize :
           k \notin s + 1..s + h => command.buffer[k] = device[first + k - 1]
    BY <1>1, <1>11 DEF PartsInv
  <2> HIDE DEF first, i, P, s, h, r, b, rb
  <2>3. i \in s + 1..s + h
    <3>1. ASSUME i \notin s + 1..s + h  PROVE FALSE
      <4>1. command.buffer[i] = device[p]
        BY <1>9, <2>1, <2>2, <3>1
      <4> QED BY <1>4, <4>1
    <3> QED BY <3>1
  <2>4. /\ i - s \in 1..h /\ s + (i - s) = i /\ p + 1 - P = i - s /\ p >= P
        /\ i - s \in 1..op.length
    BY <1>7, <1>9, <2>1, <2>3
  <2>5. command.buffer[i] = Source(op)[i - s]
    BY <2>1, <2>4
  <2> QED BY <1>2, <1>4, <1>10, <2>4, <2>5 DEF P
<1>12. CASE at = "rest"
  <2>1. /\ Size = Rounded(r) /\ first = Start(rb) /\ r > 0
        /\ \A k \in 1..Size :
             command.buffer[k] = IF k <= r THEN Source(op)[h + k] ELSE Padding
    BY <1>1, <1>6, <1>12 DEF TypeInv, CallInv, BufferInv
  <2>2. Start(rb) = P + h
    BY <1>6, <2>1, CallGeometry
  <2> HIDE DEF first, i, P, s, h, r, b, rb
  <2>3. p >= P
    BY <1>7, <1>9, <2>1, <2>2
  <2>4. device'[p] = OwnByte(op, p)
    <3>1. p + 1 - P = h + i
      BY <1>7, <1>9, <2>1, <2>2
    <3>2. command.buffer[i] = IF i <= r THEN Source(op)[h + i] ELSE Padding
      BY <1>9, <2>1
    <3>3. (h + i \in 1..op.length) <=> (i <= r)
      BY <1>7, <1>9
    <3> QED BY <1>4, <1>10, <3>1, <3>2, <3>3
  <2> QED BY <1>2, <2>3, <2>4 DEF P
<1> QED BY <1>5, <1>11, <1>12

(* A byte changes only by a write the device has taken and is in the       *)
(* blocks of the call that issued it, whichever transfer fails and in      *)
(* whichever call the data comes; and unless a status or an answer went    *)
(* wrong unnoticed it is the call in progress that changes its own bytes:  *)
(* the patched first block and the padded last one of Partition.write and  *)
(* ScsiBlockDevice.write.                                                  *)
THEOREM NoOtherBytes == Spec => OnlyOwnBytes
<1>1. ASSUME IInv, [Next]_vars, NEW p \in Positions, device'[p] # device[p]
      PROVE  /\ writer.kind = "write" /\ p \in CallBlocks(writer)
             /\ \/ doubtful
                \/ /\ writer = op
                   /\ p >= Position(op.offset) /\ device'[p] = OwnByte(op, p)
  <2>1. /\ Move /\ taking # <<>> /\ (SendCommand \/ DataOut \/ DataOutFails)
        /\ \E bytes \in Seq(Byte) : Len(bytes) <= Expected /\ Take(bytes)
    BY <1>1, OthersKeepDevice
  <2>2. writer.kind = "write" /\ p \in CallBlocks(writer)
    BY <1>1, <2>1, ChangedPlace
  <2>3. ASSUME ~doubtful
        PROVE  writer = op /\ p >= Position(op.offset) /\ device'[p] = OwnByte(op, p)
    <3>1. ~SendCommand
      BY <1>1, <2>1, <2>3 DEF SendCommand, IInv, ContentInv, TransferInv, Ready
    <3> QED BY <1>1, <2>1, <2>3, <3>1, ChangedByte
  <2> QED BY <2>2, <2>3
<1>2. IInv /\ [Next]_vars =>
        [\A p \in Positions : device'[p] # device[p] =>
           /\ writer.kind = "write" /\ p \in CallBlocks(writer)
           /\ \/ doubtful
              \/ /\ writer = op
                 /\ p >= Position(op.offset) /\ device'[p] = OwnByte(op, p)
        ]_vars
  BY <1>1
<1> QED BY <1>2, Invariant, PTL DEF Spec, OnlyOwnBytes

=============================================================================
