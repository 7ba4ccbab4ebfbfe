---------------------------- MODULE ResticOutput ----------------------------
(***************************************************************************)
(* What backup.go makes of a destination on its way to docker, and of what *)
(* a helper prints and returns.  A text is a sequence of characters; one   *)
(* character stands for a word that the code looks for as a whole.         *)
(***************************************************************************)
EXTENDS Integers, Sequences, SequencesExt

NL         == "\n"
StatusMark == "status"     \* "message_type":"status"
SummaryMark == "summary"   \* the head of a summary's JSON, and its end
JSONEnd    == "}"

-----------------------------------------------------------------------------
(* capBuffer: the first max characters are kept, the others are counted.   *)

Buffer(max) == [kept |-> <<>>, max |-> max, dropped |-> 0]

CapWrite(b, text) ==
  LET room == b.max - Len(b.kept)
      n    == IF Len(text) <= room THEN Len(text) ELSE room
  IN [b EXCEPT !.kept = @ \o SubSeq(text, 1, n), !.dropped = @ + Len(text) - n]

CapString(b) == IF b.dropped = 0 THEN b.kept ELSE b.kept \o <<NL, "...">>

-----------------------------------------------------------------------------
(* statusFilter: whole lines only, and none that reports progress.         *)

Ends(text) == {i \in DOMAIN text : text[i] = NL}

Lines(text) ==
  LET end == SetToSortSeq(Ends(text), <)
  IN [k \in DOMAIN end |-> SubSeq(text, IF k = 1 THEN 1 ELSE end[k - 1] + 1, end[k])]

Rest(text) == SubSeq(text, 1 + Max(Ends(text) \cup {0}), Len(text))

NoStatus(line) == ~Contains(line, StatusMark)

FilterWrite(f, chunk) ==
  LET text == f.pending \o chunk
  IN [pending |-> Rest(text),
      dst     |-> FoldLeft(CapWrite, f.dst, SelectSeq(Lines(text), NoStatus))]

\* What is left of the output of restic backup, written in these chunks.
QuietOutput(chunks, max) ==
  CapString(FoldLeft(FilterWrite, [pending |-> <<>>, dst |-> Buffer(max)], chunks).dst)

-----------------------------------------------------------------------------
(* parseSummary: the last line that is a whole summary.                    *)

IsSummary(line) == /\ Len(line) > 1
                   /\ line[1] = SummaryMark /\ line[Len(line) - 1] = JSONEnd

NoSummary == <<>>

ParseSummary(text) ==
  LET lines == Lines(text \o <<NL>>)
      last  == SelectLastInSeq(lines, IsSummary)
  IN IF last = 0 THEN NoSummary ELSE lines[last]

-----------------------------------------------------------------------------
(* How a helper ended, as restic and probe report it, and as classify      *)
(* names it.                                                               *)

\* A docker client that was killed has the exit code -1.
ExitOf(end) == CASE end.how = "exited"    -> end.code
                 [] end.how = "killed"    -> -1
                 [] end.how = "unstarted" -> 125

Classify(exit) == CASE exit = 10 -> "REPO_NOT_INITIALIZED"
                    [] exit = 11 -> "REPO_LOCKED"
                    [] exit = 12 -> "WRONG_PASSWORD"
                    [] exit = 125 -> "DOCKER"
                    [] exit \in {130, 137, 143} -> "CANCELLED"
                    [] OTHER -> "RESTIC"

\* backupTest, from the exits of the probe and of cat config.
TestResult(probe, cat) ==
  IF probe # 0
  THEN [writable |-> FALSE, initialized |-> FALSE, message |-> Classify(probe)]
  ELSE [writable |-> TRUE, initialized |-> cat = 0,
        message |-> CASE cat = 0  -> "none"
                      [] cat = 10 -> "not initialized yet"
                      [] OTHER    -> Classify(cat)]

\* backupInit: what made it fail, if anything did.
InitResult(probe, cat, init) ==
  CASE probe # 0 -> Classify(probe)
    [] probe = 0 /\ cat = 0 -> "already initialized"
    [] probe = 0 /\ cat # 0 /\ init # 0 -> Classify(init)
    [] OTHER -> "initialized"

-----------------------------------------------------------------------------
(* validateDestination and cifsVolumeBody: the option text of the share.   *)

ValidCredential(text) == text # <<>> /\ ~Contains(text, ",") /\ ~Contains(text, "^M")

ValidDomain(text) == \A i \in DOMAIN text : text[i] \notin {",", "=", "^M"}

ValidDestination(d) == /\ ValidCredential(d.username) /\ ValidCredential(d.password)
                       /\ ValidDomain(d.domain)

OptionText(d) ==
  LET option(key) == <<key, "=">> \o d[key]
  IN option("username") \o <<",">> \o option("password")
       \o (IF d.domain = <<>> THEN <<>> ELSE <<",">> \o option("domain"))
=============================================================================
