----------------------------- MODULE MCExecArgs -----------------------------
(* A small instance of ExecArgs for TLC.                                   *)
EXTENDS ExecArgs, TLC

CONSTANTS shell, flag

\* A list with a word to look for after an empty one, a harmless one, and one that
\* is shorter than what is read.
MCArgLists == {<<Blank, shell>>, <<flag>>, <<>>}

\* One rule with one pattern.
MCRules == {{{<<shell>>}}}

Symmetry == Permutations(Pids)
============================================================================
