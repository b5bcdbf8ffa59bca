------------------------------- MODULE Loops -------------------------------
(***************************************************************************)
(* What loops over a vector compute: one that pushes back some of the      *)
(* elements, one that appends a vector for each, one that counts.  They    *)
(* are SelectSeq, FlattenSeq and a fold with +, written as recursive       *)
(* functions over the loop's counter so that they can be reasoned about:   *)
(* to the provers SelectSeq is a primitive of which they know nothing.     *)
(***************************************************************************)
EXTENDS Integers, Sequences

AppendIf(s, x, T) == IF x \in T THEN Append(s, x) ELSE s

\* The loop's result after each number of iterations.
FilterUpTo(s, T) ==
  LET f[n \in 0 .. Len(s)] == IF n = 0 THEN <<>> ELSE AppendIf(f[n - 1], s[n], T)
  IN  f

\* The elements of s that are in T.
Filter(s, T) == FilterUpTo(s, T)[Len(s)]

FlatUpTo(lines) ==
  LET f[n \in 0 .. Len(lines)] == IF n = 0 THEN <<>> ELSE f[n - 1] \o lines[n]
  IN  f

\* The elements of the lines, one line after the other.
Flat(lines) == FlatUpTo(lines)[Len(lines)]

SumUpTo(counts) ==
  LET f[n \in 0 .. Len(counts)] == IF n = 0 THEN 0 ELSE f[n - 1] + counts[n]
  IN  f

Sum(counts) == SumUpTo(counts)[Len(counts)]
=============================================================================
