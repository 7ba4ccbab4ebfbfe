---------------------------- MODULE DockerOutput ----------------------------
(***************************************************************************)
(* What tunnel.go and volume_labels.go make of docker's listings.  Labels  *)
(* printed as text are a sequence of pieces, the text between two commas;  *)
(* a piece is a sequence of words and "=".                                 *)
(***************************************************************************)
EXTENDS Integers, Sequences, SequencesExt, FiniteSetsExt

-----------------------------------------------------------------------------
(* Labels.                                                                 *)

\* strings.Cut(piece, "=").
Cut(piece) ==
  LET i == SelectInSeq(piece, LAMBDA w : w = "=")
  IN [ok |-> i > 0, key |-> SubSeq(piece, 1, i - 1), value |-> SubSeq(piece, i + 1, Len(piece))]

Set(f, x, y) == [z \in DOMAIN f \cup {x} |-> IF z = x THEN y ELSE f[z]]

NoLabels == [k \in {} |-> <<>>]
NoKey    == <<>>

\* parseLabelText: a piece without a key belongs to the value before it.
LabelStep(acc, piece) ==
  LET kv == Cut(piece)
  IN CASE kv.ok /\ kv.key # NoKey -> [labels |-> Set(acc.labels, kv.key, kv.value), last |-> kv.key]
       [] ~(kv.ok /\ kv.key # NoKey) /\ acc.last # NoKey ->
            [acc EXCEPT !.labels[acc.last] = @ \o <<",">> \o piece]
       [] OTHER -> acc

ParseLabelText(pieces) ==
  FoldLeft(LabelStep, [labels |-> NoLabels, last |-> NoKey], pieces).labels

\* parseComposeLabels: such a piece is skipped.
ComposeLabel(pieces, key) ==
  LET i == SelectLastInSeq(pieces, LAMBDA p : Cut(p).ok /\ Cut(p).key = key)
  IN IF i = 0 THEN <<>> ELSE Cut(pieces[i]).value

\* capLabels: a map is iterated in any order, so that any choice of max labels
\* is possible.  Values are cut, long keys are left out.
CapLabels(labels, max, maxKey, maxValue) ==
  LET keys == {k \in DOMAIN labels : Len(k) <= maxKey}
      size == IF Cardinality(keys) <= max THEN Cardinality(keys) ELSE max
  IN { [k \in chosen |-> SubSeq(labels[k], 1,
                                IF Len(labels[k]) <= maxValue THEN Len(labels[k]) ELSE maxValue)]
       : chosen \in kSubset(size, keys) }

\* dockerVolumesSnapshot: the engine's dictionary, or the text of the CLI.
VolumeLabels(engine, labels, text, max, maxKey, maxValue) ==
  CapLabels(IF engine THEN labels ELSE ParseLabelText(text), max, maxKey, maxValue)

-----------------------------------------------------------------------------
(* Images and containers.  A digest is a number, 0 for none.               *)

\* parseImageLines: a repeated image keeps the smallest of its digests.
ImageStep(images, line) ==
  LET i == SelectInSeq(images, LAMBDA r : r.image = line.image)
  IN CASE i = 0 -> Append(images, line)
       [] i > 0 /\ line.digest # 0 /\ (images[i].digest = 0 \/ line.digest < images[i].digest) ->
            [images EXCEPT ![i].digest = line.digest]
       [] OTHER -> images

ParseImageLines(lines) == FoldLeft(ImageStep, <<>>, lines)

\* containerImageIDs and attachImageIDs: docker inspect prints the containers
\* that are still there, each with the image it was created from.
ImageIds(inspected) ==
  FoldLeft(LAMBDA ids, line : Set(ids, line.container, line.image), [c \in {} |-> 0], inspected)

AttachImageIds(reports, inspected) ==
  LET ids == ImageIds(inspected)
  IN [i \in DOMAIN reports |-> [reports[i] EXCEPT !.image =
        IF reports[i].id \in DOMAIN ids THEN ids[reports[i].id] ELSE 0]]
=============================================================================
