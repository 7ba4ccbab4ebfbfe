------------------------------- MODULE Stats --------------------------------
(***************************************************************************)
(* Live stats of containers (stats.go): one request per container to the   *)
(* docker engine, the docker CLI if there is no engine to ask, and what is *)
(* made of the engine's counters.  What the engine or the CLI says of a    *)
(* container is a stat or one of Unreachable and Failed.                   *)
(***************************************************************************)
EXTENDS Integers, Sequences, SequencesExt, FiniteSetsExt

Unreachable == "unreachable"     \* the socket does not answer, or not in time
Failed      == "failed"          \* another status than 200, or no JSON

NoAnswer == <<>>

-----------------------------------------------------------------------------
(* engineStatsFrom: the goroutines end in any order; each has its place in *)
(* results.                                                                *)

Take(acc, i, answer) ==
  CASE answer = Unreachable -> [acc EXCEPT !.unreachable = @ + 1]
    [] answer = Failed      -> acc
    [] OTHER                -> [acc EXCEPT !.results[i] = <<answer>>]

EngineStats(answers, order) ==
  LET all == FoldLeft(LAMBDA acc, i : Take(acc, i, answers[i]),
                      [unreachable |-> 0, results |-> [i \in DOMAIN answers |-> NoAnswer]], order)
  IN [ok    |-> all.unreachable # Len(answers),
      stats |-> FlattenSeq(all.results)]

\* cliStats: an error counts only if nothing was printed.
CLIStats(lines, error) == [ok |-> ~(error /\ lines = <<>>), stats |-> lines]

\* statsMany.
StatsMany(answers, order, lines, error) ==
  LET engine == EngineStats(answers, order)
  IN IF engine.ok THEN engine ELSE CLIStats(lines, error)

-----------------------------------------------------------------------------
(* statFromEngine.  CPU is a fraction, in percent of one core.             *)

SumOf(s) == FoldLeft(LAMBDA n, x : n + x, 0, s)

Zero == [num |-> 0, den |-> 1]

CPU(b) ==
  LET cpuDelta == b.total - b.preTotal
      sysDelta == b.system - b.preSystem
      cpus     == IF b.online # 0 THEN b.online ELSE Len(b.perCPU)
  IN IF b.preSystem > 0 /\ cpuDelta > 0 /\ sysDelta > 0 /\ cpus > 0
     THEN [num |-> cpuDelta * cpus * 100, den |-> sysDelta] ELSE Zero

\* The page cache is taken off; cgroup v1 has another name for it, which wins.
MemUsage(usage, stats) ==
  LET cache == CASE "total_inactive_file" \in DOMAIN stats -> stats.total_inactive_file
                 [] "total_inactive_file" \notin DOMAIN stats
                      /\ "inactive_file" \in DOMAIN stats -> stats.inactive_file
                 [] OTHER -> 0
  IN IF cache < usage THEN usage - cache ELSE usage

Moved(entries, op) == SumOf([i \in DOMAIN entries |->
                               IF entries[i].op = op THEN entries[i].value ELSE 0])
=============================================================================
