---------------------------- MODULE MCKernelHeap ----------------------------
EXTENDS KernelHeap
=============================================================================
