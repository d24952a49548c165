-------------------------------- MODULE Cuda --------------------------------
(***************************************************************************)
(* cuda.py: whether ONNX Runtime can use the GPU.  The CUDA libraries of   *)
(* the nvidia wheels are loaded into the process, component by component,  *)
(* and then the provider library, which fails to load without them.        *)
(*                                                                         *)
(* A machine is what the functions find: onnxruntime, its list of          *)
(* providers, the components under each site-packages directory, and those *)
(* of a system-wide CUDA, which the dynamic linker finds by itself.        *)
(***************************************************************************)
EXTENDS Integers, FiniteSets, SequencesExt

\* cuDNN depends on cuBLAS, cuBLAS on the CUDA runtime; a mutant loads cuDNN first.
CudnnFirst == <<"cudnn", "cuda_runtime", "cuda_nvrtc", "cublas", "cufft", "curand">>

ComponentOrder ==
  <<"cuda_runtime", "cuda_nvrtc", "cublas", "cufft", "curand", "cudnn">>

Components == ToSet(ComponentOrder)

IsMachine(m) ==
  /\ m.onnxruntime \in BOOLEAN /\ m.cudaBuild \in BOOLEAN
  /\ m.system \subseteq Components
  /\ IsFiniteSet(DOMAIN m.wheels)
  /\ \A root \in DOMAIN m.wheels : m.wheels[root] \subseteq Components

Needs(component) ==
  CASE component = "cublas" -> {"cuda_runtime"}
    [] component = "cudnn" -> {"cublas"}
    [] OTHER -> {}

\* CDLL() with RTLD_GLOBAL: a library whose dependencies are missing is skipped.
Load(loaded, component) ==
  IF Needs(component) \subseteq loaded THEN loaded \cup {component} ELSE loaded

\* The loop over the components: those that are there are loaded, in this order.
LoadAll(there, loaded) ==
  LET after[i \in 0..Len(ComponentOrder)] ==
        IF i = 0 THEN loaded
        ELSE IF ComponentOrder[i] \in there THEN Load(after[i - 1], ComponentOrder[i])
        ELSE after[i - 1]
  IN  after[Len(ComponentOrder)]

\* preload_cuda_libraries() visits the directories in the given order.
Preload(machine, roots) ==
  LET after[i \in 0..Len(roots)] ==
        IF i = 0 THEN machine.system
        ELSE LoadAll(machine.wheels[roots[i]], after[i - 1])
  IN  after[Len(roots)]

\* libonnxruntime_providers_cuda.so
ProviderLoads(loaded) == Components \ {"cuda_nvrtc"} \subseteq loaded

\* _nvidia_lib_roots() goes through a set of paths: the order is any.
Roots(machine) == SetToSeqs(DOMAIN machine.wheels)

\* The answers cuda_is_usable() may give.
CudaIsUsable(machine) ==
  {machine.onnxruntime /\ machine.cudaBuild /\ ProviderLoads(Preload(machine, roots)) :
     roots \in Roots(machine)}
=============================================================================
