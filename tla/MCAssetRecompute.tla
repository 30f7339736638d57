--------------------------- MODULE MCAssetRecompute ---------------------------
EXTENDS AssetRecompute, TLC

Everything == Kind
MarkedAndReconciled == {"change", "reconcile"}

Symmetric == Permutations(Batch) \cup Permutations(Processor) \cup Permutations(Manager)
               \cup Permutations(Task \ {Unclassified})

=============================================================================
