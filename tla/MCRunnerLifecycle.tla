-------------------------- MODULE MCRunnerLifecycle --------------------------
\* RunnerLifecycle on small instances.
EXTENDS RunnerLifecycle

CONSTANT a  \* the variant every instance has at boot

AllA == [id \in Ids |-> a]
=============================================================================
