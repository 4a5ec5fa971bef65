--------------------------- MODULE MCGameService ---------------------------
EXTENDS GameService, TLC

\* Audio's calls come before video's and have the same form.
MCEncoders == <<"video">>

\* Sessions are interchangeable, and so are io threads.
Symmetry == Permutations(Session) \cup Permutations(IoThread)
=============================================================================
