---------------------------- MODULE MCOperators -----------------------------
(***************************************************************************)
(* The operators of ResticOutput, DockerOutput and Stats against what they *)
(* should compute, over all small inputs; TLC evaluates the assumptions    *)
(* below with every run whose module extends this one.                     *)
(***************************************************************************)
EXTENDS ResticOutput, FiniteSets, FiniteSetsExt

D == INSTANCE DockerOutput
S == INSTANCE Stats

-----------------------------------------------------------------------------
(* The output of restic.                                                   *)

Output == SeqOf({StatusMark, "x", NL}, 4)

\* text, written in pieces that end after each i in cuts.
Chunks(text, cuts) ==
  LET ends == SetToSortSeq(cuts \cup {Len(text)}, <)
  IN [k \in DOMAIN ends |-> SubSeq(text, IF k = 1 THEN 1 ELSE ends[k - 1] + 1, ends[k])]

\* What statusFilter should let through.
Filtered(text) == FlattenSeq(SelectSeq(Lines(text), NoStatus))

\* The filter sees the output in whatever pieces the pipe makes: a line of
\* progress cut in two is dropped, any other whole line is kept, and the buffer
\* holds the first characters of that (statusFilter and capBuffer).
ASSUME ChunksDoNotMatter ==
  \A text \in Output : \A cuts \in SUBSET (1 .. Len(text) - 1) : \A max \in {0, 2, 4} :
    QuietOutput(Chunks(text, cuts), max) =
      IF Len(Filtered(text)) <= max THEN Filtered(text)
      ELSE SubSeq(Filtered(text), 1, max) \o <<NL, "...">>

Summary == <<SummaryMark, "x", JSONEnd, NL>>

\* The summary, which is the last line, is found exactly if all that came
\* before it, except progress, left room for it: a backup with too much output
\* counts as one that reported no snapshot.
ASSUME SummaryNeedsRoom ==
  \A text \in {Flat \in Output : Rest(Flat) = <<>>} : \A max \in 0 .. 8 :
    ParseSummary(QuietOutput(<<text, Summary>>, max)) =
      IF Len(Filtered(text)) + Len(Summary) - 1 <= max THEN Summary ELSE NoSummary

\* Test and Initialize agree on one repository: what the test calls
\* initialized is never initialized again, whatever else fails.
ASSUME TestAndInitAgree ==
  \A probe, cat, init \in {0, 1, 10, 12, 125} :
    (TestResult(probe, cat).initialized \/ ~TestResult(probe, cat).writable) =>
      InitResult(probe, cat, init) # "initialized"

Field == SeqOf({"x", ",", "="}, 2)

\* The option text that the kernel reads, split at its commas and each piece at
\* its first "=".
ReadOptions(text) ==
  LET commas == SetToSortSeq({i \in DOMAIN text : text[i] = ","} \cup {0, Len(text) + 1}, <)
      pieces == [k \in 1 .. Len(commas) - 1 |-> SubSeq(text, commas[k] + 1, commas[k + 1] - 1)]
  IN D!ParseLabelText(pieces)

\* Any destination that passes the validation reaches the mount with the
\* user name, the password and the domain it was given, an "=" in them included.
ASSUME OptionsRoundTrip ==
  LET dests == [username : Field, password : Field, domain : Field]
      read(d) == ReadOptions(OptionText(d))
      given(d) == /\ read(d)[<<"username">>] = d.username
                  /\ read(d)[<<"password">>] = d.password
                  /\ <<"domain">> \in DOMAIN read(d) <=> d.domain # <<>>
                  /\ d.domain # <<>> => read(d)[<<"domain">>] = d.domain
  IN \A d \in dests : ValidDestination(d) => given(d)

-----------------------------------------------------------------------------
(* The listings of docker.                                                 *)

Part == {<<"v">>, <<"=">>, <<"a">>, <<"v", "=">>, <<>>}

\* A value is the parts between its commas.
Values == SeqOf(Part, 2) \ {<<>>}
Keys   == {<<"a">>, <<"b">>}

Value(parts) ==
  IF Len(parts) = 1 THEN parts[1] ELSE parts[1] \o <<",">> \o parts[2]

Pieces(key, parts) ==
  [i \in DOMAIN parts |-> IF i = 1 THEN key \o <<"=">> \o parts[1] ELSE parts[i]]

\* docker volume ls prints the labels in some order.
Printed(labels, order) == FlattenSeq([i \in DOMAIN order |-> Pieces(order[i], labels[order[i]])])

\* No comma in a value is followed by what looks like a key.
Clear(labels) ==
  \A k \in DOMAIN labels : \A i \in 2 .. Len(labels[k]) :
    ~(D!Cut(labels[k][i]).ok /\ D!Cut(labels[k][i]).key # <<>>)

Orders == {<<>>} \cup {<<k>> : k \in Keys} \cup {<< <<"a">>, <<"b">> >>, << <<"b">>, <<"a">> >>}

\* The text of the CLI gives the labels that the engine's dictionary gives, in
\* any order and with commas in the values, so that a snapshot taken while the
\* socket does not answer does not change them; the exception is a value in
\* which a comma is followed by "key=".
ASSUME FallbackTellsTheSame ==
  \A order \in Orders : \A parts \in [ToSet(order) -> Values] :
    LET labels == [k \in ToSet(order) |-> Value(parts[k])]
    IN Clear(parts) =>
         D!VolumeLabels(FALSE, labels, Printed(parts, order), 64, 128, 256)
           = D!VolumeLabels(TRUE, labels, <<>>, 64, 128, 256)

Keyed(piece) == D!Cut(piece).ok /\ D!Cut(piece).key # <<>>

\* The stack and the service of a container are the last labels of these names,
\* whatever is repeated; what follows a comma in their value is lost.
ASSUME ComposeLabelIsTheLast ==
  \A pieces \in SeqOf({<<"a", "=", "v">>, <<"a", "=">>, <<"b", "=", "v">>, <<"v">>, <<"=">>}, 3) :
    LET labels == D!ParseLabelText(SelectSeq(pieces, Keyed))
    IN \A k \in {<<"a">>, <<"b">>} :
         D!ComposeLabel(pieces, k) = IF k \in DOMAIN labels THEN labels[k] ELSE <<>>

Capped == [{<<"a">>, <<"b">>, <<"a", "b">>} -> SeqOf({"v"}, 3)]

\* Each snapshot keeps at most max labels, all of them real ones.  Snapshots of
\* unchanged labels are equal only if there are no more than that: which of
\* them are left out differs from one to the next.
ASSUME CapIsStableUpToMax ==
  \A labels \in Capped : \A max \in 0 .. 3 : \A maxKey \in {1, 2} :
    LET results == D!CapLabels(labels, max, maxKey, 2)
        eligible == {k \in DOMAIN labels : Len(k) <= maxKey}
    IN /\ \A r \in results : /\ DOMAIN r \subseteq eligible /\ Cardinality(DOMAIN r) <= max
                             /\ \A k \in DOMAIN r : IsPrefix(r[k], labels[k]) /\ Len(r[k]) <= 2
       /\ Cardinality(results) = 1 <=> (Cardinality(eligible) <= max \/ max = 0)

ImageLines == SeqOf([image : {"i1", "i2"}, digest : 0 .. 2], 4)

Smallest(lines, image) ==
  LET digests == {lines[i].digest : i \in {j \in DOMAIN lines : lines[j].image = image}} \ {0}
  IN IF digests = {} THEN 0 ELSE Min(digests)

\* Each image is reported once, with the smallest of its digests, in whatever
\* order docker lists them.
ASSUME ImagesOnce ==
  \A lines \in ImageLines :
    LET images == D!ParseImageLines(lines)
    IN /\ {images[i].image : i \in DOMAIN images} = {lines[i].image : i \in DOMAIN lines}
       /\ \A i, j \in DOMAIN images : images[i].image = images[j].image => i = j
       /\ \A i \in DOMAIN images : images[i].digest = Smallest(lines, images[i].image)

\* A container that goes while they are inspected has no image id, and the
\* others have theirs.
ASSUME ImageIdsByContainer ==
  \A gone \in SUBSET {1, 2, 3} :
    LET reports == [i \in 1 .. 3 |-> [id |-> i, image |-> 0]]
        inspected == SelectSeq(<<[container |-> 3, image |-> 30], [container |-> 1, image |-> 10],
                                 [container |-> 2, image |-> 20]>>, LAMBDA l : l.container \notin gone)
        attached == D!AttachImageIds(reports, inspected)
    IN \A i \in 1 .. 3 : attached[i].image = IF i \in gone THEN 0 ELSE 10 * i

-----------------------------------------------------------------------------
(* Live stats.                                                             *)

Answers == [1 .. 3 -> {S!Unreachable, S!Failed, "stat1", "stat2"}]

IsStat(a) == a \notin {S!Unreachable, S!Failed}

\* The stats are those of the containers that answered, in the order asked for,
\* whichever request ended first; the CLI is asked exactly if no request got
\* through, so that one container that has gone hides none of the others.
ASSUME OrderDoesNotMatter ==
  \A answers \in Answers : \A order \in SetToSeqs(1 .. 3) : \A error \in BOOLEAN :
    S!StatsMany(answers, order, <<"line">>, error) =
      IF \A i \in 1 .. 3 : answers[i] = S!Unreachable
      THEN [ok |-> TRUE, stats |-> <<"line">>]
      ELSE [ok |-> TRUE, stats |-> SelectSeq(answers, IsStat)]

Samples == [total : 0 .. 2, preTotal : 0 .. 2, system : 0 .. 2, preSystem : 0 .. 2,
                  online : 0 .. 1, perCPU : {<<>>, <<1, 1>>}]

\* A container that restarted, or a first sample, has no CPU figure rather than
\* a negative or an infinite one.
ASSUME CPUIsAFraction ==
  \A b \in Samples : LET f == S!CPU(b)
                     IN f.den > 0 /\ f.num >= 0 /\ (b.preSystem = 0 => f.num = 0)

\* Memory in use never wraps below zero, whatever the cache is said to be.
ASSUME MemoryDoesNotWrap ==
  \A usage, v1, v2 \in 0 .. 3 :
    LET both == [total_inactive_file |-> v1, inactive_file |-> v2]
    IN /\ S!MemUsage(usage, both) \in 0 .. usage
       /\ S!MemUsage(usage, both) = S!MemUsage(usage, [total_inactive_file |-> v1])
       /\ S!MemUsage(usage, [inactive_file |-> v2]) \in 0 .. usage

\* Every byte read or written is counted once.
ASSUME BytesAreCounted ==
  \A entries \in SeqOf([op : {"read", "write", "sync"}, value : 0 .. 2], 2) :
    S!Moved(entries, "read") + S!Moved(entries, "write") =
      SumFunction([i \in DOMAIN entries |-> IF entries[i].op = "sync" THEN 0 ELSE entries[i].value])
=============================================================================
