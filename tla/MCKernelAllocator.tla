------------------------- MODULE MCKernelAllocator -------------------------
(***************************************************************************)
(* Instances of KernelAllocator: five activations hold a call, a handler   *)
(* that interrupts it, and calls from the handler and from callbacks.      *)
(***************************************************************************)
EXTENDS KernelAllocator

MCMaxDepth == 5

MCMaxGrants == 3

=============================================================================
