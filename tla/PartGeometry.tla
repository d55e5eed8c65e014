---------------------------- MODULE PartGeometry ----------------------------
(***************************************************************************)
(* document-domain's part geometry and the arithmetic document-app builds  *)
(* on it: the size of a part, the number of parts and what each part must  *)
(* hold.  The limits are S3's.                                             *)
(***************************************************************************)
EXTENDS Integers

CONSTANTS
  MIN_PART_BYTES, MAX_PART_BYTES,  \* S3's limits on one part
  MAX_PARTS,                       \* ... on parts per multipart
  MAX_OBJECT_BYTES                 \* ... and on one object

\* The numbers of geometry.rs satisfy this: 5 MiB, 5 GiB, 10 000 and 5 TiB.
ASSUME LimitsAssumption ==
  /\ MIN_PART_BYTES \in Nat \ {0} /\ MAX_PART_BYTES \in Nat /\ MAX_PARTS \in Nat \ {0}
  /\ MAX_OBJECT_BYTES \in Nat
  /\ MIN_PART_BYTES <= MAX_PART_BYTES
  /\ MAX_OBJECT_BYTES <= MAX_PARTS * MAX_PART_BYTES

DivCeil(a, b) == (a + b - 1) \div b

\* The inputs part_size_bytes does not refuse.
Accepted(size, target) ==
  /\ target \in MIN_PART_BYTES..MAX_PART_BYTES
  /\ size \in 1..MAX_OBJECT_BYTES

\* part_size_bytes: the configured target until MAX_PARTS binds.
PartSize(size, target) ==
  LET floor == DivCeil(size, MAX_PARTS)
  IN IF target >= floor THEN target ELSE floor

\* Slip: rounding down loses the last, short part.
PartCountFloor(size, part) == size \div part

\* part_count, where it is not an error.
PartCount(size, part) == DivCeil(size, part)

\* expected_part_size: a full part everywhere but the last; -1 is None.
ExpectedPartSize(size, part, n) ==
  IF n = 0 \/ n > PartCount(size, part) THEN -1
  ELSE IF n < PartCount(size, part) THEN part
  ELSE size - (PartCount(size, part) - 1) * part
=============================================================================
