----------------------------- MODULE Knowledge -----------------------------
(***************************************************************************)
(* The Knowledge Vault: chunk_text, and one document of a user, stored     *)
(* with its chunks in one transaction and unique by its content.  A text   *)
(* is the length it has once its white space is normalized and the set of  *)
(* the positions of its spaces; a chunk is a half-open interval, whose     *)
(* spaces at either end are stripped.                                      *)
(*                                                                         *)
(* Left out: embeddings and search order, titles, and the isolation of     *)
(* users by the database's row policies.                                   *)
(***************************************************************************)
EXTENDS Integers, FiniteSets, Sequences, SequencesExt, FiniteSetsExt

CONSTANTS
  ChunkSize, ChunkOverlap,
  MaxLength,       \* bound: length of a text
  Ingestions       \* requests to ingest

ASSUME ChunkAssumption ==
  /\ ChunkSize \in Nat \ {0, 1}    \* a chunk is not a space alone, which is dropped
  /\ MaxLength \in Nat \ {0}
  /\ ChunkOverlap \in 0 .. (ChunkSize - 1)

\* Normalized texts: no space at either end, no two in a row.
Texts ==
  {t \in [length : 1 .. MaxLength, spaces : SUBSET (1 .. MaxLength - 2)] :
     \A i \in t.spaces : i < t.length - 1 /\ i + 1 \notin t.spaces}

-----------------------------------------------------------------------------
Smaller(a, b) == IF a < b THEN a ELSE b
Larger(a, b)  == IF a > b THEN a ELSE b

Splits(t, s, end) == {i \in t.spaces : i >= s /\ i < end /\ i > s + ChunkSize \div 2}

\* Mutant: the last chunk runs past the text.
EndUnbounded(t, s) ==
  LET end == s + ChunkSize
  IN  IF end < t.length /\ Splits(t, s, end) # {} THEN Max(Splits(t, s, end)) ELSE end

(* Where the chunk that starts at s ends: at the last space of the full    *)
(* length if that lies in its second half.                                 *)
ChunkEnd(t, s) ==
  LET end == Smaller(t.length, s + ChunkSize)
  IN  IF end < t.length /\ Splits(t, s, end) # {} THEN Max(Splits(t, s, end)) ELSE end

\* Mutant: the overlap is taken from the end the chunk would have had.
NextFromSize(t, s) == Larger(s + ChunkSize - ChunkOverlap, s + 1)

NextStart(t, s) == Larger(ChunkEnd(t, s) - ChunkOverlap, s + 1)

(* chunk_text.                                                             *)
ChunkText(t) ==
  LET from[s \in 0 .. t.length] ==
        <<<<s, ChunkEnd(t, s)>>>> \o
          IF ChunkEnd(t, s) >= t.length THEN <<>> ELSE from[NextStart(t, s)]
  IN  from[0]

-----------------------------------------------------------------------------
VARIABLES
  text,            \* the document that is ingested
  stored,          \* the chunks of its row, <<>> for no row
  ingestion,       \* each request: where it is
  reported         \* the chunk count each request answered with

vaultVars == <<text, stored, ingestion, reported>>

VaultInit ==
  /\ text \in Texts
  /\ stored = <<>>
  /\ ingestion = [i \in Ingestions |-> "idle"]
  /\ reported = [i \in Ingestions |-> 0]

(* ingest looks for the content, and answers with what is there ...        *)
Ingest(i) ==
  /\ ingestion[i] = "idle"
  /\ ingestion' = [ingestion EXCEPT ![i] = IF stored = <<>> THEN "storing" ELSE "done"]
  /\ reported' = [reported EXCEPT ![i] = Len(stored)]
  /\ UNCHANGED <<text, stored>>

(* ... or stores the document and all of its chunks; the unique key makes  *)
(* the second of two fail.                                                 *)
StoreDocument(i) ==
  /\ ingestion[i] = "storing"
  /\ IF stored = <<>>
       THEN /\ stored' = ChunkText(text)
            /\ reported' = [reported EXCEPT ![i] = Len(stored')]
            /\ ingestion' = [ingestion EXCEPT ![i] = "done"]
       ELSE /\ ingestion' = [ingestion EXCEPT ![i] = "failed"]
            /\ UNCHANGED <<stored, reported>>
  /\ UNCHANGED text

IngestFails(i) ==
  /\ ingestion[i] = "storing"
  /\ ingestion' = [ingestion EXCEPT ![i] = "failed"]
  /\ UNCHANGED <<text, stored, reported>>

(* The chunks go with their document.                                      *)
DeleteDocument ==
  /\ stored # <<>>
  /\ stored' = <<>>
  /\ UNCHANGED <<text, ingestion, reported>>

VaultNext ==
  \/ \E i \in Ingestions : Ingest(i) \/ StoreDocument(i) \/ IngestFails(i)
  \/ DeleteDocument

VaultSpec == VaultInit /\ [][VaultNext]_vaultVars

-----------------------------------------------------------------------------
VaultTypeOK ==
  /\ text \in Texts
  /\ \A n \in DOMAIN stored : stored[n] \in (0 .. MaxLength) \X (0 .. MaxLength)
  /\ ingestion \in [Ingestions -> {"idle", "storing", "done", "failed"}]
  /\ reported \in [Ingestions -> Nat]

Within(i, j, chunk) == chunk[1] <= i /\ j <= chunk[2]

\* The words of a text, as intervals.
Words(t) ==
  {w \in (0 .. t.length) \X (0 .. t.length) :
     /\ w[1] < w[2]
     /\ \A i \in w[1] .. w[2] - 1 : i \notin t.spaces
     /\ w[1] = 0 \/ w[1] - 1 \in t.spaces
     /\ w[2] = t.length \/ w[2] \in t.spaces}

(* Nothing of a stored document is lost by cutting it up: every position   *)
(* is in a chunk, and every word no longer than the overlap is whole in    *)
(* one, where a search can find it (chunk_text).                           *)
ChunksCover ==
  stored # <<>> =>
    LET chunks == ToSet(stored) IN
      /\ \A i \in 0 .. text.length - 1 : \E c \in chunks : Within(i, i + 1, c)
      /\ \A w \in Words(text) :
           w[2] - w[1] <= ChunkOverlap => \E c \in chunks : Within(w[1], w[2], c)

-----------------------------------------------------------------------------
(* For the proof: what is stored is what chunk_text made of this text.     *)
VaultInv ==
  /\ text \in Texts /\ stored \in {<<>>, ChunkText(text)}
  /\ ingestion \in [Ingestions -> {"idle", "storing", "done", "failed"}]
  /\ reported \in [Ingestions -> Nat]
=============================================================================
