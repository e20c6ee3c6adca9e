------------------------------ MODULE Partition ------------------------------
(***************************************************************************)
(* Partition.read and write (libaums, partition/Partition.java): any run   *)
(* of bytes of the partition over commands for whole blocks.  A call that  *)
(* starts inside a block moves that block through a buffer of its own, and *)
(* ScsiBlockDevice.read and write round the rest up to whole blocks.  One  *)
(* call is up to three commands, and each may fail as ScsiBlockDevice says.*)
(***************************************************************************)
EXTENDS ScsiBlockDevice, FiniteSets

CONSTANTS FirstBlock    \* logicalBlockAddress of the partition

ASSUME PartitionAssumption == FirstBlock \in 0..LastBlock

VARIABLES
    op,         \* the call: kind, offset and number of bytes, version
    at,         \* "idle", "head", "patch", "rest", "returned", "threw"
    dest,       \* the bytes a read has put into its destination
    doubtful,   \* history: the call began with a device that had something
                \* left to send or waited for data, or got no status for a
                \* command, or a failed one
    failed,     \* history: a transfer of the call has failed
    writer      \* history: the call whose data the device takes, NoOp if none

historyVars == <<doubtful, failed, writer>>
vars == <<scsiVars, op, at, dest, historyVars>>

NoOp == [kind |-> "none", offset |-> 0, length |-> 0, version |-> OldVersion]

Init ==
    /\ ScsiInit
    /\ op = NoOp /\ at = "idle" /\ dest = <<>>
    /\ doubtful = FALSE /\ failed = FALSE /\ writer = NoOp

-----------------------------------------------------------------------------
(* Where the bytes of a call are                                           *)

Bytes == 0..(LastBlock + 1 - FirstBlock) * BlockSize - 1
Position(offset) == FirstBlock * BlockSize + offset

Inside(offset) == offset % BlockSize
BlockOf(offset) == offset \div BlockSize + FirstBlock

(* The bytes of the call in its first block, if it starts inside of it.    *)
HeadLength(o) ==
    IF Inside(o.offset) = 0 THEN 0
    ELSE IF o.length < BlockSize - Inside(o.offset) THEN o.length
    ELSE BlockSize - Inside(o.offset)

(* The bytes the rest of the call moves, and the blocks it rounds them to. *)
Rest(o) == o.length - HeadLength(o)
Unrounded(n) == n       \* Mistake: part of a block is a command's data
Rounded(n) == ((n + BlockSize - 1) \div BlockSize) * BlockSize
RestBlock(o) == BlockOf(o.offset) + (IF Inside(o.offset) = 0 THEN 0 ELSE 1)

(* What the client writes.                                                 *)
Source(o) ==
    [i \in 1..o.length |-> <<Position(o.offset + i - 1), o.version>>]

-----------------------------------------------------------------------------
(* The commands of a call                                                  *)

(* Mistake: the bytes behind the source are shifted into the block.        *)
PatchedFromStart(o, block) ==
    [i \in 1..BlockSize |->
       IF i <= HeadLength(o) THEN Source(o)[i] ELSE block[i]]

(* The first block with the source's first bytes in it.                    *)
Patched(o, block) ==
    [i \in 1..BlockSize |->
       IF i \in Inside(o.offset) + 1..Inside(o.offset) + HeadLength(o)
         THEN Source(o)[i - Inside(o.offset)] ELSE block[i]]

(* ScsiBlockDevice.read and write: a buffer of whole blocks; what is not   *)
(* the source's is written as zeros.                                       *)
IssueRest(o) ==
    Issue(IF o.kind = "read" THEN "in" ELSE "out", RestBlock(o),
          [i \in 1..Rounded(Rest(o)) |->
             IF o.kind = "write" /\ i <= Rest(o)
               THEN Source(o)[HeadLength(o) + i] ELSE Padding])

Begin(o) ==
    /\ at \in {"idle", "returned", "threw"}
    /\ op' = o /\ dest' = <<>>
    /\ doubtful' = ~Ready /\ failed' = FALSE /\ UNCHANGED writer
    /\ IF Inside(o.offset) = 0 THEN at' = "rest" /\ IssueRest(o)
       ELSE /\ at' = "head"
            /\ Issue("in", BlockOf(o.offset), [i \in 1..BlockSize |-> Padding])

Calls(kind, version) ==
    {[kind |-> kind, offset |-> x[1], length |-> x[2], version |-> version] :
       x \in {y \in Bytes \X (Bytes \cup {Cardinality(Bytes)}) :
                y[2] > 0 /\ y[1] + y[2] <= Cardinality(Bytes)}}

WriteCalls == UNION {Calls("write", v) : v \in Versions}

Read == \E o \in Calls("read", OldVersion) : Begin(o)
Write == \E o \in WriteCalls : Begin(o)

(* A command has ended.  Nobody looks at transferCommand's result.         *)
Done ==
    /\ step = "done"
    /\ doubtful' = (doubtful \/ ~Passed \/ answers # <<>>)
    /\ UNCHANGED <<failed, writer>>

End(how) ==
    at' = how /\ step' = "none"
      /\ UNCHANGED <<device, taking, answers, command, moved, csw, late>>

Continue ==
    IF Rest(op) > 0 THEN at' = "rest" /\ IssueRest(op) ELSE End("returned")

(* A read that ends inside its first block overflows the destination.      *)
Overflows(o) == o.kind = "read" /\ o.length < BlockSize - Inside(o.offset)

HeadRead ==
    /\ at = "head" /\ op.kind = "read" /\ Done
    /\ IF Overflows(op) THEN End("threw") /\ UNCHANGED dest
       ELSE /\ dest' = SubSeq(command.buffer, Inside(op.offset) + 1, BlockSize)
            /\ Continue
    /\ UNCHANGED op

PatchHead ==
    /\ at = "head" /\ op.kind = "write" /\ Done
    /\ at' = "patch"
    /\ Issue("out", BlockOf(op.offset), Patched(op, command.buffer))
    /\ UNCHANGED <<op, dest>>

HeadWritten ==
    /\ at = "patch" /\ Done
    /\ Continue
    /\ UNCHANGED <<op, dest>>

RestDone ==
    /\ at = "rest" /\ Done
    /\ dest' = IF op.kind = "read"
                 THEN dest \o SubSeq(command.buffer, 1, Rest(op)) ELSE dest
    /\ End("returned")
    /\ UNCHANGED op

(* A step of transferCommand.                                              *)
Move ==
    /\ Transfer
    /\ failed' = (failed \/ late' # late)
    /\ writer' = CASE taking' = <<>> -> NoOp
                   [] taking' # <<>> /\ taking = <<>> -> op
                   [] OTHER -> writer
    /\ UNCHANGED <<op, at, dest, doubtful>>

(* An exception of transferCommand ends the call.                          *)
Thrown ==
    /\ step = "threw"
    /\ End("threw")
    /\ UNCHANGED <<op, dest, historyVars>>

Next == \/ Read \/ Write
        \/ Move
        \/ HeadRead \/ PatchHead \/ HeadWritten \/ RestDone \/ Thrown

Spec == Init /\ [][Next]_vars

-----------------------------------------------------------------------------
(* Properties                                                              *)

(* Type correctness; besides, only a call in progress has a command.       *)
TypeOK ==
    /\ ScsiTypeOK
    /\ op \in {NoOp} \cup Calls("read", OldVersion) \cup WriteCalls
    /\ writer \in {NoOp} \cup WriteCalls
    /\ at \in {"idle", "head", "patch", "rest", "returned", "threw"}
    /\ dest \in Seq(Byte) /\ doubtful \in BOOLEAN /\ failed \in BOOLEAN
    /\ (at \in {"idle", "returned", "threw"}) = (step = "none")

(* A read that returns has found each byte that is stored, and a write has *)
(* stored each of its bytes, however the data was cut into transfers,      *)
(* unless a status was failed or missing, or an earlier call had left      *)
(* something to be received or a device that waits for data.  A call       *)
(* throws only for one of these reasons, or if one of its transfers has    *)
(* failed, or if it is a read that ends inside its first block.            *)
CallOutcome ==
    LET stored == [i \in 1..op.length |-> device[Position(op.offset) + i - 1]]
    IN  /\ at = "returned" /\ ~doubtful =>
              stored = IF op.kind = "read" THEN dest ELSE Source(op)
        /\ at = "threw" => doubtful \/ failed \/ Overflows(op)

(* The blocks of a call, and what it may store at position p: its own      *)
(* bytes, and zeros behind them up to the end of the last block.           *)
CallBlocks(o) ==
    BlockOf(o.offset) * BlockSize
      ..RestBlock(o) * BlockSize + Rounded(Rest(o)) - 1
OwnByte(o, p) ==
    LET i == p + 1 - Position(o.offset)
    IN  IF i \in 1..o.length THEN Source(o)[i] ELSE Padding

(* A byte changes only by a write command the device has taken, and is in  *)
(* the blocks of the call that issued it, whatever fails and in whichever  *)
(* call the data comes: never before the partition or in other blocks.     *)
(* Unless something went wrong unnoticed, before the call or in its read   *)
(* of the first block, that call is the one in progress, the byte is none  *)
(* in front of its first one, and its own or, behind them, zero.           *)
OnlyOwnBytes ==
    [][\A p \in Positions : device'[p] # device[p] =>
         /\ writer.kind = "write" /\ p \in CallBlocks(writer)
         /\ \/ doubtful
            \/ /\ writer = op
               /\ p >= Position(op.offset) /\ device'[p] = OwnByte(op, p)
      ]_vars

(* "The amount of bytes to be written are determined by                    *)
(* ByteBuffer.remaining()" (BlockDeviceDriver.java, line 61): where        *)
(* nothing goes wrong the bytes behind the end of a write stay as they     *)
(* are.                                                                    *)
BytesBehindKept ==
    [][\A p \in Positions : device'[p] # device[p] =>
         doubtful \/ p < Position(op.offset) + op.length]_vars
=============================================================================
