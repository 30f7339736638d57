----------------------------- MODULE MCScanQueue -----------------------------
(***************************************************************************)
(* Small instances of ScanQueue for TLC.                                    *)
(***************************************************************************)
EXTENDS ScanQueue, TLC

\* Jobs, workers and prefixes are interchangeable.
Symmetry == Permutations(Job) \cup Permutations(Worker) \cup Permutations(Prefix)

\* Two instances in one: all workers for one job, of a full or a manual scan, or one
\* worker for all jobs, of full and smart scans without confirmation rounds.
OneJob ==
  /\ \E j \in Job : \A k \in Job \ {j} : jobStatus[k] = "absent"
  /\ \A j \in Job : mode[j] # "smart"
OneWorker ==
  /\ \E w \in Worker : \A v \in Worker \ {w} : phase[v] = "idle"
  /\ \A j \in Job : mode[j] # "manual_prefix"
  /\ \A s \in Shard : s.round > 0 => shardStatus[s] = "absent"
Small == OneJob \/ OneWorker
=============================================================================
