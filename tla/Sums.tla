-------------------------------- MODULE Sums --------------------------------
EXTENDS Integers, FiniteSetsExt

\* The sum of the values of the function f at the elements of S.
SumOf(f, S) == MapThenSumSet(LAMBDA x : f[x], S)
=============================================================================
