--------------------------- MODULE MCHttpClient ---------------------------
EXTENDS HttpClient, TLC

\* Requests are interchangeable.  Origins are not: getName may single one out.
RequestSymmetry == Permutations(Requests)
=============================================================================
