---------------------------- MODULE MCIRConstant ----------------------------
(* Small instances of IRConstant for TLC.                                  *)
EXTENDS IRConstant

\* u64 and u256: both branches of the widening match in new_uint.
MCWidths == {64, 256}
MCLits == {0, 1}
MCLits256 == {1}
\* One-byte digests over {0, 1}: two distinct values.
MCByteVals == {0, 1}
MCByteLen == 1
MCStrings == {<<7>>}
====
