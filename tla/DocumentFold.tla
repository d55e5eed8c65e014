---------------------------- MODULE DocumentFold ----------------------------
(***************************************************************************)
(* document-domain's fold: how one event changes the state of a document.  *)
(* A field is abstracted to the stream sequence of the event that wrote it *)
(* (0: never), so two states are equal exactly when the same events are    *)
(* visible in them.  filename, content_type, byte_size and checksum are    *)
(* written together with the blob; tags, description and metadata are      *)
(* patched like the title.                                                 *)
(***************************************************************************)
EXTENDS Integers

CONSTANT Docs

\* The payload variants, those with the same arm of the fold taken together:
\* metadata also stands for a revert; touched for text extraction, pruning and
\* the failure of a stage other than index; unknown for every message that does
\* not decode; imported for a create by a system actor.
Kinds == {"created", "imported", "validated", "metadata", "deleted", "indexed",
          "stage_failed", "touched", "unknown"}

\* The variants that advance the version.
Advancing == {"created", "imported", "validated", "metadata", "deleted"}

Event == [doc : Docs, kind : Kinds, version : Nat, forVersion : Nat, patch : BOOLEAN]

DocumentState ==
  [version : Nat, seq : Nat, state : {"active", "deleted"},
   index : {"pending", "current", "failed"}, indexVersion : Nat,
   blob : Nat, title : Nat, created : Nat]

\* A table without a row for the document, or a fold that found no prior state.
NoRow == [seq |-> 0]

MergePatch(s, e, seq) == IF e.patch THEN [s EXCEPT !.title = seq] ELSE s

\* What the arms of the fold have in common.
Touch(s, e, seq) == [s EXCEPT !.version = e.version, !.seq = seq]

\* A create seeds every field; on an existing document only created_at stays.
Seed(s, e, seq) ==
  [version |-> e.version, seq |-> seq, state |-> "active", index |-> "pending",
   indexVersion |-> 0, blob |-> seq, title |-> 0,
   created |-> IF s = NoRow THEN seq ELSE s.created]

\* Slip: replacing the bytes keeps the old index.
NewBytesKeepIndex(s, e, seq) ==
  MergePatch([Touch(s, e, seq) EXCEPT !.blob = seq], e, seq)

\* New bytes invalidate whatever was indexed for the old ones.
NewBytes(s, e, seq) ==
  MergePatch([Touch(s, e, seq) EXCEPT !.blob = seq, !.index = "pending"], e, seq)

\* apply, where it does not fail.
Apply(s, e, seq) ==
  CASE e.kind = "created" ->
         MergePatch(Seed(s, e, seq), e, seq)
    [] e.kind = "validated" ->
         NewBytes(s, e, seq)
    [] e.kind = "metadata" ->
         MergePatch(Touch(s, e, seq), e, seq)
    [] e.kind = "deleted" ->
         [Touch(s, e, seq) EXCEPT !.state = "deleted"]
    [] e.kind = "indexed" ->
         [Touch(s, e, seq) EXCEPT
            !.indexVersion = e.forVersion,
            !.index = IF e.forVersion >= e.version THEN "current" ELSE "pending"]
    [] e.kind = "stage_failed" ->
         [Touch(s, e, seq) EXCEPT !.index = "failed"]
    [] OTHER ->
         Touch(s, e, seq)

\* project_event records a failure instead of a state for what does not decode,
\* for a create by a system actor and for any other event without prior state.
\* (Subject and payload name the same document, so DocumentMismatch is not
\* reachable from the log.)
Fails(s, e) ==
  \/ e.kind \in {"unknown", "imported"}
  \/ e.kind # "created" /\ s = NoRow
=============================================================================
