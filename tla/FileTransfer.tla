---------------------------- MODULE FileTransfer ----------------------------
(***************************************************************************)
(* What a multi-stream transfer promises, without saying how: the file is  *)
(* a set of blocks, the receiving side reports success only for a file it  *)
(* has completely on disk, and the sending side reports success only after *)
(* the receiving side has.  The promise is one-sided: a receiver that      *)
(* succeeded cannot make the sender learn of it.                           *)
(*                                                                         *)
(* The protocol of src/transfer (module Transfer) implements this module.  *)
(***************************************************************************)
EXTENDS Integers

CONSTANT NumBlocks   \* a natural number: the module that implements this one assumes it

Blocks == 0 .. NumBlocks - 1

VARIABLES
  disk,          \* the blocks whose bytes are in the receiver's file
  receiverOut,   \* "running", "verified" (renamed, not acknowledged), "ok", "failed"
  senderOut      \* "running", "ok", "failed"

vars == <<disk, receiverOut, senderOut>>

TypeOK ==
  /\ disk \subseteq Blocks
  /\ receiverOut \in {"running", "verified", "ok", "failed"}
  /\ senderOut \in {"running", "ok", "failed"}

Init ==
  /\ disk = {}
  /\ receiverOut = "running"
  /\ senderOut = "running"

\* A block reaches the file, in any order, by any stream, any number of times.
WriteBlock(b) ==
  /\ disk' = disk \cup {b}
  /\ UNCHANGED <<receiverOut, senderOut>>

\* The checksum over the whole file matches: only then is it given its name.
Verify ==
  /\ receiverOut = "running"
  /\ disk = Blocks
  /\ receiverOut' = "verified"
  /\ UNCHANGED <<disk, senderOut>>

\* The receiver confirms a verified file and is done.
Confirm ==
  /\ receiverOut = "verified"
  /\ receiverOut' = "ok"
  /\ UNCHANGED <<disk, senderOut>>

\* The receiver gives up, with the file still incomplete or unconfirmed.
ReceiverFail ==
  /\ receiverOut \in {"running", "verified"}
  /\ receiverOut' = "failed"
  /\ UNCHANGED <<disk, senderOut>>

\* The sender learns of the confirmation.
SenderOk ==
  /\ senderOut = "running"
  /\ receiverOut = "ok"
  /\ senderOut' = "ok"
  /\ UNCHANGED <<disk, receiverOut>>

\* The sender gives up; the receiver may yet succeed, or have succeeded.
SenderFail ==
  /\ senderOut = "running"
  /\ senderOut' = "failed"
  /\ UNCHANGED <<disk, receiverOut>>

Next ==
  \/ \E b \in Blocks : WriteBlock(b)
  \/ Verify \/ Confirm \/ ReceiverFail
  \/ SenderOk \/ SenderFail

Spec == Init /\ [][Next]_vars
=============================================================================
