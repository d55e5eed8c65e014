------------------------------ MODULE BlobScan ------------------------------
(***************************************************************************)
(* What the document worker does with the bytes of one assembled upload:   *)
(* the sizes, the sniff of the first bytes, and the streaming scan that    *)
(* also computes the checksum (crates/document-adapters/src/               *)
(* verification.rs, steps 2 to 4 of DocumentWorker::finish).  A read       *)
(* returns as many bytes as it likes, and the object may change between    *)
(* two of the worker's requests.  A checksum is the bytes it was fed.      *)
(***************************************************************************)
EXTENDS Integers, Sequences, SequencesExt

CONSTANTS
  Bytes,
  MaxLength,   \* of an object
  Signature,   \* what the scanner looks for
  Prefix,      \* bytes read for the sniff (PREFIX_BYTES)
  Magics,      \* the sniffable formats, in order: [magic, mime]
  Containers,  \* declared types that are physically a ZIP
  Types        \* types a client may declare; "" is none

VARIABLES
  blob,        \* the stored object
  declared,    \* [size, type]
  step,        \* "head", "prefix", "open", "read" or a verdict
  reader,      \* what of the object is still to be read
  scan,        \* [window, infected, hashed, count]
  overwritten

scanVars == <<blob, declared, step, reader, scan, overwritten>>

NewScan == [window |-> <<>>, infected |-> FALSE, hashed |-> <<>>, count |-> 0]

ScanInit ==
  /\ blob \in UNION {[1..n -> Bytes] : n \in 1..MaxLength}
  /\ declared \in [size : {Len(blob), Len(blob) + 1}, type : Types]
  /\ step = "head"
  /\ reader = <<>>
  /\ scan = NewScan
  /\ overwritten = FALSE

----------------------------------------------------------------------------
\* The needle is one of the haystack's windows.
HasBytes(haystack, needle) ==
  \E i \in 1..(Len(haystack) - Len(needle) + 1) :
    SubSeq(haystack, i, i + Len(needle) - 1) = needle

\* The first format whose magic the prefix starts with; "" for none.
Sniff(prefix) ==
  LET hit == {i \in DOMAIN Magics : IsPrefix(Magics[i].magic, prefix)}
  IN  IF hit = {} THEN "" ELSE Magics[CHOOSE i \in hit : \A j \in hit : i <= j].mime

\* A declaration without parameters, in lower case.
ContentTypeMatches(sniffed, type) ==
  \/ type \in {"", "octet-stream"}
  \/ type = sniffed
  \/ sniffed = "zip" /\ type \in Containers

\* BasicContentValidator
Validate(size, prefix) ==
  /\ size = declared.size
  /\ Sniff(prefix) # "" => ContentTypeMatches(Sniff(prefix), declared.type)

----------------------------------------------------------------------------
(* The worker                                                              *)

HeadObject ==
  /\ step = "head"
  /\ step' = IF Len(blob) = declared.size THEN "prefix" ELSE "rejected"
  /\ UNCHANGED <<blob, declared, reader, scan, overwritten>>

\* The validator sees the size the HEAD reported.
ReadPrefix ==
  /\ step = "prefix"
  /\ LET n == IF Prefix < Len(blob) THEN Prefix ELSE Len(blob)
     IN  step' = IF Validate(declared.size, SubSeq(blob, 1, n)) THEN "open" ELSE "rejected"
  /\ UNCHANGED <<blob, declared, reader, scan, overwritten>>

OpenRead ==
  /\ step = "open"
  /\ reader' = blob
  /\ scan' = NewScan
  /\ step' = "read"
  /\ UNCHANGED <<blob, declared, overwritten>>

\* Mutant: one byte less than a split signature needs.
DrainShort(w) ==
  IF Len(w) > Len(Signature) THEN SubSeq(w, Len(w) - Len(Signature) + 3, Len(w)) ELSE w

\* Of a window longer than the signature all but its last bytes go.
Drain(w) ==
  IF Len(w) > Len(Signature) THEN SubSeq(w, Len(w) - Len(Signature) + 2, Len(w)) ELSE w

\* One turn of the scanner's loop, over the next n bytes.
Read(n) ==
  LET chunk  == SubSeq(reader, 1, n)
      window == scan.window \o chunk
  IN  /\ step = "read" /\ n \in 1..Len(reader)
      /\ reader' = SubSeq(reader, n + 1, Len(reader))
      /\ scan' = [window |-> IF scan.infected THEN scan.window ELSE Drain(window),
                  infected |-> scan.infected \/ HasBytes(window, Signature),
                  hashed |-> scan.hashed \o chunk,
                  count |-> scan.count + n]
      /\ UNCHANGED <<blob, declared, step, overwritten>>

\* No more to read: the verdict, and the bytes counted against the declaration.
EndOfBlob ==
  /\ step = "read" /\ reader = <<>>
  /\ step' = IF scan.infected \/ scan.count # declared.size THEN "rejected" ELSE "accepted"
  /\ UNCHANGED <<blob, declared, reader, scan, overwritten>>

\* A request or a read fails: the command is delivered again, and starts over.
Retry ==
  /\ step \in {"head", "prefix", "open", "read"}
  /\ step' = "head"
  /\ reader' = <<>>
  /\ scan' = NewScan
  /\ UNCHANGED <<blob, declared, overwritten>>

\* The object is another one from here on: shorter, longer, or with other bytes.
Overwrite ==
  /\ ~overwritten /\ overwritten' = TRUE
  /\ blob' \in {Tail(blob), Reverse(blob)} \cup {Append(blob, b) : b \in Bytes}
  /\ UNCHANGED <<declared, step, reader, scan>>

ScanNext ==
  \/ HeadObject \/ ReadPrefix \/ OpenRead \/ EndOfBlob \/ Retry \/ Overwrite
  \/ \E n \in 1..(MaxLength + 1) : Read(n)

ScanSpec == ScanInit /\ [][ScanNext]_scanVars

----------------------------------------------------------------------------
\* An upload is accepted only for bytes the checksum is of, all of them, that
\* are as many as were declared and hold no signature, however the reads split
\* the object and whatever became of it between HEAD and GET; and no unchanged
\* object free of the signature is ever found infected.
AcceptedIsScanned ==
  /\ step = "accepted" =>
       /\ Len(scan.hashed) = declared.size
       /\ ~HasBytes(scan.hashed, Signature)
       /\ ~overwritten => scan.hashed = blob
  /\ scan.infected => HasBytes(scan.hashed, Signature)

=============================================================================
