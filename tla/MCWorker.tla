------------------------------ MODULE MCWorker ------------------------------
(***************************************************************************)
(* Worker on a small instance: two threads; a directory with a file whose  *)
(* number has a leading zero, a two-digit number and a directory; five     *)
(* machines, on each of which another device is asked for.                 *)
(***************************************************************************)
EXTENDS Worker, TLC

CONSTANTS t1, t2

Symmetry == Permutations({t1, t2})

F1 == Named("F", 1, 0)
F2 == Named("F", 2, 0)
F10 == Named("F", 10, 0)
M3 == Named("M", 3, 0)

MCShipped == {Entry("file", F1)}
MCFound == {Entry("file", F10), Entry("file", Named("F", 2, 1)),
            Entry("directory", M3), Entry("other", Named("M", 4, 0))}
MCVoiceNames == {F1, F2, F10, M3}

Machine(cudaBuild, wheels) ==
  [onnxruntime |-> TRUE, cudaBuild |-> cudaBuild, system |-> {}, wheels |-> wheels]

\* All wheels in one directory and one of them in another, too; the same, divided
\* between the two; a CPU-only build.
AllWheels == Machine(TRUE, [site |-> Components, user |-> {"cudnn"}])
Divided == Machine(TRUE, [site |-> Components \ {"cudnn"}, user |-> {"cudnn"}])
CpuOnly == Machine(FALSE, [site |-> {}, user |-> {}])

\* Where the GPU is not wanted, and where a device is misspelt.
Unwanted == Machine(TRUE, [site |-> Components, user |-> {}])
Misspelt == Machine(FALSE, [site |-> Components, user |-> {}])

MCMachines == {AllWheels, Divided, CpuOnly, Unwanted, Misspelt}

MCDevice ==
  [m \in MCMachines |->
    CASE m = AllWheels -> "cuda"
      [] m = Divided -> "auto"
      [] m = CpuOnly -> "gpu"
      [] m = Unwanted -> "cpu"
      [] m = Misspelt -> "gpus"]
=============================================================================
