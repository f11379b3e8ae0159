----------------------------- MODULE FECHeader -----------------------------
(* The 16-bit FECInfo field of EncapsulatedHeader: bit 15 marks parity, bits *)
(* 14-4 hold the group number, bits 3-0 the index within the group, as       *)
(* sessionWorker packs them and runRecvNormal unpacks them.                  *)
EXTENDS Integers

IndexSpan == 16      \* 4 bits
GroupSpan == 2048    \* 11 bits
ParityFlag == 32768  \* bit 15
Uint16 == 65536

(* (groupNum << 4) | index; the index fits its four bits because Validate    *)
(* and the registration reply refuse n above 16.                             *)
DataInfoMutant(group, index) == ((group * 8) + index) % Uint16

DataInfo(group, index) == ((group * IndexSpan) + index) % Uint16

ParityInfo(group, index) == ParityFlag + (((group * IndexSpan) + index) % ParityFlag)

IsFEC(info) == info \div ParityFlag = 1

GroupOf(info) == (info \div IndexSpan) % GroupSpan

IndexOf(info) == info % IndexSpan
=============================================================================
